---- MODULE Spec2Model ----
(***************************************************************************)
(* A model of the timeslide planning, injection scheduling and VT          *)
(* estimation code of BBHNet:                                              *)
(*   datagen/utils/timeslide_waveforms.py  calc_shifts_required,           *)
(*                                         calc_segment_injection_times    *)
(*   bbhnet/analysis/vt.py                 VolumeTimeIntegral              *)
(*   datagen/utils/timeslide_waveforms.py  merge_output                    *)
(*   datagen/scripts/timeslides.py         main                            *)
(*   infer/data/injector.py                Injector                        *)
(*   deploy/dataloading.py                 read_channel, data_iterator     *)
(*   datagen/scripts/generate_background.py main                           *)
(*   infer/data/batcher.py                 batch_chunks                    *)
(*   train/data_structures.py              aframeWaveformInjection.forward *)
(* Each function is a small state machine of its own; a specification      *)
(* (SpecShifts, SpecInj, SpecVT, SpecMerge, SpecSlides, SpecInjector,      *)
(* SpecParams, SpecRead, SpecVolume, SpecBackground, SpecBatch,            *)
(* SpecForward, SpecIterator) runs one of them and keeps the others idle.  *)
(***************************************************************************)
EXTENDS Integers, Sequences, FiniteSets, TLC

VARIABLES
    \* calc_shifts_required(segments, Tb, shift)
    segments,          \* the argument: a list of (start, stop) tuples
    Tb,                \* the argument: target livetime, seconds
    shift,             \* the argument: shift increment, seconds
    shifts_required,   \* the loop's counter, and the value returned
    total_livetime,    \* the local of the loop body
    pcShifts,          \* "idle", "loop" (top of while True), "test" (at the if),
                       \* "done" (returned)
    \* calc_segment_injection_times(start, stop, spacing, buffer, waveform_duration)
    injArgs,           \* the arguments, a record
    injection_times,   \* the array returned
    pcInj,             \* "idle", "call", "done"
    \* VolumeTimeIntegral.calculate_vt(target)
    vtObj,             \* the object's fields after construction, a record
    vtTarget,          \* the argument: "None" or "given" (a target prior)
    vtWeights,         \* the local weights
    vtResult,          \* the locals mu and variance, and (vt, std, n_eff) returned
    pcVT,              \* "idle", "call", "weighted", "done"
    \* merge_output(datadir)
    mergeUnits,        \* the per-unit archives of datadir when the call starts
    mergeOnDisk,       \* the per-unit archives still in datadir
    mergeOrder,        \* the archives the for loop has gone through, in its order
    datasets,          \* the local datasets: key -> list of rows
    n_rejected,        \* the local n_rejected
    mergeOut,          \* timeslide_waveforms.hdf5 as written
    pcMerge,           \* "idle", "loop", "raised", "done"
    \* main of scripts/timeslides.py, the loop over segments of lines 131-306
    slArgs,            \* segments, shifts (one increment per ifo) and n_slides
    seg_index,         \* the position of the for loop in segments
    segment_shifts,    \* the shifts of the segment the inner loop has yet to do
    dur,               \* the local dur of the segment
    windows,           \* the data windows cropped for the current shift
    futuresPending,    \* the futures of the list futures that are still running
    futuresFailed,     \* the futures of the list futures that raised
    stalePending,      \* running writes of earlier segments, in no list any more
    visited,           \* the segments whose processing has begun
    pcSlides,          \* "idle", "for_segment", "download", "for_shift", "wait",
                       \* "finished" (main returned), "aborted" (main raised)
    \* Injector of infer/data/injector.py
    injector,          \* the fields injection_set, start and sample_rate
    injStart0,         \* start as the Injector was constructed with
    injAt,             \* the start the last call handed to inject
    xArr,              \* the array x of the caller of the last call, after it
    xAtCall,           \* the same array as it was when the call was made
    injResult,         \* what the last call returned
    injCalls,          \* the number of calls made
    injLengths,        \* the last-axis lengths of the arrays of the calls made
    pcInjector,        \* "idle", "constructed", "called"
    \* params.h5 of one shift, lines 287-299 of scripts/timeslides.py
    paramsFile,        \* the datasets of the file, by key
    paramsBatches,     \* the lengths of the batches written, in write order
    pcParams,          \* "idle", "closed", "raised"
    \* read_channel of deploy/dataloading.py
    rcSampleRate,      \* the argument sample_rate
    rcReads,           \* what TimeSeries.read did in the attempts made so far
    rcResult,          \* the value returned
    rcRaised,          \* the exception raised
    pcRead,            \* "idle", "loop", "returned", "raised"
    \* VolumeTimeIntegral.__post_init__ and calculate_astrophysical_volume of vt.py
    volSource,         \* the prior source: its distance range and, if any, its dec range
    volArgs,           \* the arguments dec_min and dec_max of the call at line 111
    volOmega,          \* the local omega, in units of pi
    volVolume,         \* self.volume, in units of pi Mpc^3
    pcVolume,          \* "idle", "post_init", "call", "quad", "done", "raised"
    \* main of generate_background.py
    bgActive,          \* the active segments the query returns, one list per ifo
    minimum_length,    \* the argument minimum_length
    intersection,      \* the local intersection
    bgIfo,             \* the position of the for loop over ifos that is running
    bgSegment,         \* the local segment
    bgFiles,           \* the ifos whose background file is written, with what it holds
    pcBackground,      \* "idle", "intersect", "select", "write", "done", "raised"
    \* batch_chunks of mdc/data/batcher.py
    bcArgs,            \* the lengths of the chunks it yields, num_steps, batch_size and the rates
    bcFetched,         \* the number of chunks next(it) has returned
    bcX,               \* the local x: the positions in the stream of the samples it holds
    chunk_idx,         \* the local chunk_idx
    bcI,               \* the loop variable i: the number of batches yielded
    bcYielded,         \* the batches yielded, in order
    bcRaised,          \* the ValueError raised
    pcBatch,           \* "idle", "start", "loop", "after", "returned", "raised"
    \* aframeWaveformInjection.forward of train/data_structures.py
    afY,               \* the argument y, one target per batch element
    afModule,          \* the fields training, swap_frac and mute_frac (in halves)
    afMask,            \* the local mask when forward returns
    afSelected,        \* the batch elements rvs < probs selected for injection
    afSwapped,         \* the batch elements whose waveform had a channel swapped
    afMuted,           \* the batch elements whose waveform had a channel muted
    afYOut,            \* the y returned
    pcForward,         \* "idle", "call", "returned", "raised"
    \* data_iterator of deploy/dataloading.py
    diFiles,           \* the start times of the frame files in the directory of each ifo
    diLength,          \* the length of a frame, from the file names
    diTimeout,         \* whether the argument timeout is given
    diT0,              \* the local t0
    diIfo,             \* the position of the for loop over ifos
    diLastT0,          \* the argument last_t0 of the call of reset_t0 that is running
    diYields,          \* the items yielded, in order
    pcIterator         \* "idle", "wait" (at the while of line 125), "reset", "raised"

shiftVars == <<segments, Tb, shift, shifts_required, total_livetime, pcShifts>>
injVars == <<injArgs, injection_times, pcInj>>
vtVars == <<vtObj, vtTarget, vtWeights, vtResult, pcVT>>
mergeVars ==
    <<mergeUnits, mergeOnDisk, mergeOrder, datasets, n_rejected, mergeOut, pcMerge>>
slideVars ==
    <<slArgs, seg_index, segment_shifts, dur, windows, futuresPending,
      futuresFailed, stalePending, visited, pcSlides>>
injectorVars ==
    <<injector, injStart0, injAt, xArr, xAtCall, injResult, injCalls,
      injLengths, pcInjector>>
paramsVars == <<paramsFile, paramsBatches, pcParams>>
readVars == <<rcSampleRate, rcReads, rcResult, rcRaised, pcRead>>
volumeVars == <<volSource, volArgs, volOmega, volVolume, pcVolume>>
backgroundVars ==
    <<bgActive, minimum_length, intersection, bgIfo, bgSegment, bgFiles, pcBackground>>
batchVars ==
    <<bcArgs, bcFetched, bcX, chunk_idx, bcI, bcYielded, bcRaised, pcBatch>>
forwardVars ==
    <<afY, afModule, afMask, afSelected, afSwapped, afMuted, afYOut, pcForward>>
iteratorVars ==
    <<diFiles, diLength, diTimeout, diT0, diIfo, diLastT0, diYields, pcIterator>>
vars ==
    <<shiftVars, injVars, vtVars, mergeVars, slideVars, injectorVars,
    paramsVars, readVars, volumeVars, backgroundVars, batchVars, forwardVars,
    iteratorVars>>

\* what a step of one function leaves alone: the state of the others
notShiftVars ==
    <<injVars, vtVars, mergeVars, slideVars, injectorVars, paramsVars,
    readVars, volumeVars, backgroundVars, batchVars, forwardVars,
    iteratorVars>>
notInjVars ==
    <<shiftVars, vtVars, mergeVars, slideVars, injectorVars, paramsVars,
    readVars, volumeVars, backgroundVars, batchVars, forwardVars,
    iteratorVars>>
notVTVars ==
    <<shiftVars, injVars, mergeVars, slideVars, injectorVars, paramsVars,
    readVars, volumeVars, backgroundVars, batchVars, forwardVars,
    iteratorVars>>
notMergeVars ==
    <<shiftVars, injVars, vtVars, slideVars, injectorVars, paramsVars,
    readVars, volumeVars, backgroundVars, batchVars, forwardVars,
    iteratorVars>>
notSlideVars ==
    <<shiftVars, injVars, vtVars, mergeVars, injectorVars, paramsVars,
    readVars, volumeVars, backgroundVars, batchVars, forwardVars,
    iteratorVars>>
notInjectorVars ==
    <<shiftVars, injVars, vtVars, mergeVars, slideVars, paramsVars, readVars,
    volumeVars, backgroundVars, batchVars, forwardVars, iteratorVars>>
notParamsVars ==
    <<shiftVars, injVars, vtVars, mergeVars, slideVars, injectorVars,
    readVars, volumeVars, backgroundVars, batchVars, forwardVars,
    iteratorVars>>
notReadVars ==
    <<shiftVars, injVars, vtVars, mergeVars, slideVars, injectorVars,
    paramsVars, volumeVars, backgroundVars, batchVars, forwardVars,
    iteratorVars>>
notVolumeVars ==
    <<shiftVars, injVars, vtVars, mergeVars, slideVars, injectorVars,
    paramsVars, readVars, backgroundVars, batchVars, forwardVars,
    iteratorVars>>
notBackgroundVars ==
    <<shiftVars, injVars, vtVars, mergeVars, slideVars, injectorVars,
    paramsVars, readVars, volumeVars, batchVars, forwardVars, iteratorVars>>
notBatchVars ==
    <<shiftVars, injVars, vtVars, mergeVars, slideVars, injectorVars,
    paramsVars, readVars, volumeVars, backgroundVars, forwardVars,
    iteratorVars>>
notForwardVars ==
    <<shiftVars, injVars, vtVars, mergeVars, slideVars, injectorVars,
    paramsVars, readVars, volumeVars, backgroundVars, batchVars,
    iteratorVars>>
notIteratorVars ==
    <<shiftVars, injVars, vtVars, mergeVars, slideVars, injectorVars,
    paramsVars, readVars, volumeVars, backgroundVars, batchVars, forwardVars>>

----------------------------------------------------------------------------
(* Bounds of the model.                                                    *)

\* GPS times of segment boundaries are drawn from 0..MaxGPS
MaxGPS == 6
\* a segment list has at most MaxSegments segments
MaxSegments == 2
\* the shift increment is drawn from 0..MaxShiftInc
MaxShiftInc == 2
\* the target livetime is drawn from 0..MaxTb
MaxTb == 9
\* calc_segment_injection_times: start and stop are drawn from 0..MaxInjStop
MaxInjStop == 8
\* spacing is drawn from 0..MaxSpacing
MaxSpacing == 2
\* buffer is drawn from 0..MaxBuffer
MaxBuffer == 1
\* waveform_duration is drawn from 1..MaxDuration
MaxDuration == 3
\* calculate_vt: a prior's density at a sample is drawn from 0..MaxDensity
MaxDensity == 2
\* at most MaxRecovered recovered samples
MaxRecovered == 2
\* n_injections is drawn from 0..MaxInjections
MaxInjections == 3
\* livetime is drawn from 1..MaxHalfYears half years
MaxHalfYears == 2
\* the astrophysical volume is drawn from 1..MaxVolume Mpc^3
MaxVolume == 1
\* merge_output: at most MaxUnits per-unit archives in datadir
MaxUnits == 2
\* a per-unit archive holds at most MaxRows rows per dataset
MaxRows == 2
\* the n_rejected attribute of a per-unit archive is drawn from 0..MaxRejected
MaxRejected == 1
\* timeslides main: segment boundaries are drawn from 0..MaxSlideGPS
MaxSlideGPS == 3
\* at most MaxSlideSegments segments
MaxSlideSegments == 2
\* the shift increment of the shifted ifo is drawn from 0..MaxShiftArg
MaxShiftArg == 1
\* n_slides is drawn from 1..MaxSlides
MaxSlides == 2
\* Injector: an array x has 1..MaxChunk samples
MaxChunk == 2
\* at most MaxCalls calls of an Injector
MaxCalls == 2
\* a response of the injection set has 1..MaxWaveLen samples
MaxWaveLen == 2
\* the injection set holds at most MaxWaveforms responses
MaxWaveforms == 1
\* sample_rate of an Injector is drawn from 1..MaxInjRate
MaxInjRate == 2
\* start of an Injector is drawn from 0..MaxInjStart
MaxInjStart == 1
\* params.h5: at most MaxBatches batches are written
MaxBatches == 4
\* a batch holds 0..MaxBatchRows rows per key
MaxBatchRows == 3
\* read_channel: sample rates are drawn from 1..MaxReadRate
MaxReadRate == 2
\* a frame read holds 0..MaxReadLen samples
MaxReadLen == 3

\* astrophysical volume: distances are drawn from 1..MaxDl
MaxDl == 3
\* the integral over redshift that quad returns is drawn from 1..MaxRadial
MaxRadial == 2

\* generate_background: segment boundaries are drawn from 0..MaxBgGPS
MaxBgGPS == 4
\* an ifo has at most MaxBgSegments active segments
MaxBgSegments == 2
\* minimum_length is drawn from 0..MaxMinLength
MaxMinLength == 2

\* batch_chunks: the iterator yields at most MaxBcChunks chunks
MaxBcChunks == 3
\* of 1..MaxBcChunkLen samples each
MaxBcChunkLen == 3
\* num_steps is drawn from 0..MaxSteps
MaxSteps == 2
\* batch_size is drawn from 1..MaxBatchSize
MaxBatchSize == 2
\* sample_rate is drawn from 1..MaxBcRate, inference_sampling_rate from
\* 1..sample_rate
MaxBcRate == 2

\* aframeWaveformInjection.forward: a batch has 1..MaxBatchElements elements
MaxBatchElements == 3

\* data_iterator: frame files start at 0, 1, .. MaxFrame frame lengths
MaxFrame == 4
\* the length of a frame is drawn from 1..MaxFrameLength
MaxFrameLength == 2
\* at most MaxYields items are yielded
MaxYields == 4

----------------------------------------------------------------------------
(* calc_shifts_required                                                    *)

\* a (start, stop) tuple with stop > start
Segment == {s \in (0..MaxGPS) \X (0..MaxGPS) : s[1] < s[2]}

\* segment lists as the segment query returns them: ordered and disjoint
SegmentLists ==
    UNION {{l \in [1..k -> Segment] :
               \A i \in 1..(k - 1) : l[i][2] <= l[i + 1][1]} :
           k \in 0..MaxSegments}

RECURSIVE SumDurations(_)
\* np.sum([stop - start for start, stop in segments])
SumDurations(segs) ==
    IF segs = <<>> THEN 0
    ELSE (Head(segs)[2] - Head(segs)[1]) + SumDurations(Tail(segs))

\* off by one in the shift applied: max_shift = shift * (shifts_required + 1)
MutTotalLivetime(segs, sh, n) ==
    (SumDurations(segs) - Len(segs) * (sh * (n + 1))) * n

\* lines 23-28: the livetime that n shifts of increment sh yield
TotalLivetime(segs, sh, n) ==
    LET livetime == SumDurations(segs)
        n_segments == Len(segs)
        max_shift == sh * n
    IN  (livetime - n_segments * max_shift) * n

\* The loop has no exit but the break, so its counter is unbounded. From
\* ShiftsHorizon on the test total_livetime < Tb succeeds at every pass for
\* every input of the model that has not returned before (total_livetime is
\* negative and decreasing, or the constant 0 below Tb), so the model keeps
\* the counter at ShiftsHorizon, which stands for every larger value.
ShiftsHorizon == MaxGPS + MaxTb + 1

Min(a, b) == IF a < b THEN a ELSE b

InitShifts ==
    /\ segments \in SegmentLists
    /\ Tb \in 0..MaxTb
    /\ shift \in 0..MaxShiftInc
    /\ shifts_required = 1
    /\ total_livetime = 0
    /\ pcShifts = "loop"

IdleShifts ==
    /\ segments = <<>>
    /\ Tb = 0
    /\ shift = 0
    /\ shifts_required = 0
    /\ total_livetime = 0
    /\ pcShifts = "idle"

\* lines 27-28: the livetime of the current number of shifts
ShiftsEvaluate ==
    /\ pcShifts = "loop"
    /\ total_livetime' = TotalLivetime(segments, shift, shifts_required)
    /\ pcShifts' = "test"
    /\ UNCHANGED <<segments, Tb, shift, shifts_required>>
    /\ UNCHANGED notShiftVars

\* the counter skips a value: shifts_required += 2
MutShiftsIterate ==
    /\ pcShifts = "test"
    /\ total_livetime < Tb
    /\ shifts_required' = Min(shifts_required + 2, ShiftsHorizon)
    /\ pcShifts' = "loop"
    /\ UNCHANGED <<segments, Tb, shift, total_livetime>>
    /\ UNCHANGED notShiftVars

\* lines 29-31: total_livetime < Tb, one more shift and around again
ShiftsIterate ==
    /\ pcShifts = "test"
    /\ total_livetime < Tb
    /\ shifts_required' = Min(shifts_required + 1, ShiftsHorizon)
    /\ pcShifts' = "loop"
    /\ UNCHANGED <<segments, Tb, shift, total_livetime>>
    /\ UNCHANGED notShiftVars

\* lines 32-34: break and return shifts_required
ShiftsReturn ==
    /\ pcShifts = "test"
    /\ ~(total_livetime < Tb)
    /\ pcShifts' = "done"
    /\ UNCHANGED <<segments, Tb, shift, shifts_required, total_livetime>>
    /\ UNCHANGED notShiftVars

NextShifts == ShiftsEvaluate \/ ShiftsIterate \/ ShiftsReturn

----------------------------------------------------------------------------
(* calc_segment_injection_times                                            *)

\* floor division, Python's // on non-negative operands
FloorDiv(a, b) == a \div b

\* the number of elements of np.arange(a, b, step): ceil((b - a) / step),
\* and none when b <= a
ArangeLen(a, b, step) ==
    IF b <= a THEN 0 ELSE (b - a + step - 1) \div step

\* np.arange(a, b, step) for step > 0: a, a + step, ... below b
Arange(a, b, step) == [i \in 1..ArangeLen(a, b, step) |-> a + (i - 1) * step]

\* the spacing counted twice, the way line 91 counts the buffer:
\* spacing += waveform_duration + spacing
MutInjectionPeriod(spacing, waveform_duration) ==
    spacing + (waveform_duration + spacing)

\* line 92: spacing = waveform_duration + spacing
InjectionPeriod(spacing, waveform_duration) == waveform_duration + spacing

\* line 91: buffer += waveform_duration // 2 + buffer
InjectionBuffer(buffer, waveform_duration) ==
    buffer + (FloorDiv(waveform_duration, 2) + buffer)

\* lines 91-94
calc_segment_injection_times(start, stop, spacing, buffer, waveform_duration) ==
    LET buffer1 == InjectionBuffer(buffer, waveform_duration)
        spacing1 == InjectionPeriod(spacing, waveform_duration)
    IN  Arange(start + buffer1, stop - buffer1, spacing1)

InjArguments ==
    {a \in [start : 0..MaxInjStop, stop : 0..MaxInjStop, spacing : 0..MaxSpacing,
            buffer : 0..MaxBuffer, waveform_duration : 1..MaxDuration] :
        a.start < a.stop}

InitInj ==
    /\ injArgs \in InjArguments
    /\ injection_times = <<>>
    /\ pcInj = "call"

IdleInj ==
    /\ injArgs = <<>>
    /\ injection_times = <<>>
    /\ pcInj = "idle"

\* one call of calc_segment_injection_times, lines 70-94
InjCall ==
    /\ pcInj = "call"
    /\ injection_times' =
           calc_segment_injection_times(injArgs.start, injArgs.stop, injArgs.spacing,
                                        injArgs.buffer, injArgs.waveform_duration)
    /\ pcInj' = "done"
    /\ UNCHANGED injArgs
    /\ UNCHANGED notInjVars

NextInj == InjCall

----------------------------------------------------------------------------
(* Floating-point values, kept exact: a finite value is the fraction n/d   *)
(* in lowest terms with d > 0; "inf" carries its sign in n; "nan" is nan.  *)
(* Division follows numpy's float64 (x/0 is inf or nan, never an error).   *)

RECURSIVE GCD(_, _)
GCD(a, b) == IF b = 0 THEN a ELSE GCD(b, a % b)

Abs(x) == IF x < 0 THEN -x ELSE x

Fin(n, d) ==
    LET g == GCD(Abs(n), d)
    IN  [k |-> "fin", n |-> n \div g, d |-> d \div g]
NaN == [k |-> "nan", n |-> 0, d |-> 1]
Inf(sign) == [k |-> "inf", n |-> sign, d |-> 1]

IsFin(x) == x.k = "fin"
IsNaN(x) == x.k = "nan"
IsInf(x) == x.k = "inf"
Sign(x) == IF x.n > 0 THEN 1 ELSE IF x.n < 0 THEN -1 ELSE 0

FMul(a, b) ==
    IF IsNaN(a) \/ IsNaN(b) THEN NaN
    ELSE IF IsInf(a) \/ IsInf(b)
         THEN IF Sign(a) * Sign(b) = 0 THEN NaN ELSE Inf(Sign(a) * Sign(b))
    ELSE Fin(a.n * b.n, a.d * b.d)

\* a zero divisor is +0
FDiv(a, b) ==
    IF IsNaN(a) \/ IsNaN(b) THEN NaN
    ELSE IF IsInf(a)
         THEN IF IsInf(b) THEN NaN
              ELSE Inf(Sign(a) * (IF Sign(b) < 0 THEN -1 ELSE 1))
    ELSE IF IsInf(b) THEN Fin(0, 1)
    ELSE IF b.n = 0
         THEN IF a.n = 0 THEN NaN ELSE Inf(Sign(a))
    ELSE Fin(a.n * b.d * Sign(b), a.d * Abs(b.n))

FSub(a, b) ==
    IF IsNaN(a) \/ IsNaN(b) THEN NaN
    ELSE IF IsInf(a) /\ IsInf(b) THEN (IF a.n = b.n THEN NaN ELSE a)
    ELSE IF IsInf(a) THEN a
    ELSE IF IsInf(b) THEN Inf(-b.n)
    ELSE Fin(a.n * b.d - b.n * a.d, a.d * b.d)

FAdd(a, b) ==
    IF IsNaN(a) \/ IsNaN(b) THEN NaN
    ELSE IF IsInf(a) /\ IsInf(b) THEN (IF a.n = b.n THEN a ELSE NaN)
    ELSE IF IsInf(a) THEN a
    ELSE IF IsInf(b) THEN b
    ELSE Fin(a.n * b.d + b.n * a.d, a.d * b.d)

\* np.sqrt: nan for a negative argument; the root of a finite value is
\* kept as the value under the root
FSqrt(a) ==
    IF IsNaN(a) \/ Sign(a) < 0 THEN NaN
    ELSE IF IsInf(a) THEN a
    ELSE [k |-> "sqrt", n |-> a.n, d |-> a.d]

RECURSIVE FSum(_)
\* np.sum
FSum(seq) == IF seq = <<>> THEN Fin(0, 1) ELSE FAdd(Head(seq), FSum(Tail(seq)))

----------------------------------------------------------------------------
(* VolumeTimeIntegral                                                      *)

\* vt.py line 17: YEARS_PER_SECOND = 1 / (60 * 60 * 24 * 365)
SecondsPerYear == 60 * 60 * 24 * 365
YEARS_PER_SECOND == Fin(1, SecondsPerYear)

\* A recovered sample, as the priors see it: the density source.prob(sample)
\* and the density target.prob(sample) of a target prior, in arbitrary units.
Samples == [source_prob : 0..MaxDensity, target_prob : 0..MaxDensity]

RecoveredTables == UNION {[1..m -> Samples] : m \in 0..MaxRecovered}

\* the object after __post_init__: recovered_parameters as a list of samples,
\* n_injections, livetime in seconds, volume in Mpc^3
VTObjects ==
    [recovered_parameters : RecoveredTables,
     n_injections : 0..MaxInjections,
     livetime : {h * (SecondsPerYear \div 2) : h \in 1..MaxHalfYears},
     volume : 1..MaxVolume]

\* lines 126-127 and 133: the density target.prob(sample), the target being
\* the source when none is given
TargetProb(sample, target) ==
    IF target = "None" THEN sample.source_prob ELSE sample.target_prob

\* lines 129-136: weights()
Weights(recovered_parameters, target) ==
    [i \in 1..Len(recovered_parameters) |->
        FDiv(Fin(TargetProb(recovered_parameters[i], target), 1),
             Fin(recovered_parameters[i].source_prob, 1))]

\* weights**2
Squares(weights) == [i \in 1..Len(weights) |-> FMul(weights[i], weights[i])]

\* mu normalised by the number recovered instead of the number injected
MutMu(weights, n_injections) == FDiv(FSum(weights), Fin(Len(weights), 1))

\* line 155: mu = np.sum(weights) / self.n_injections
Mu(weights, n_injections) == FDiv(FSum(weights), Fin(n_injections, 1))

\* line 157: v0 = self.livetime * YEARS_PER_SECOND * self.volume
V0(livetime, volume) ==
    FMul(FMul(Fin(livetime, 1), YEARS_PER_SECOND), Fin(volume, 1))

\* the second term not divided by n_injections: variance -= mu**2
MutVariance(weights, mu, n_injections, v0) ==
    LET variance0 == FDiv(FSum(Squares(weights)),
                          Fin(n_injections * n_injections, 1))
        variance1 == FSub(variance0, FMul(mu, mu))
    IN  FMul(variance1, FMul(v0, v0))

\* lines 160-162
Variance(weights, mu, n_injections, v0) ==
    LET variance0 == FDiv(FSum(Squares(weights)),
                          Fin(n_injections * n_injections, 1))
        variance1 == FSub(variance0, FDiv(FMul(mu, mu), Fin(n_injections, 1)))
    IN  FMul(variance1, FMul(v0, v0))

\* lines 155-166, from the weights on: the locals mu and variance and the
\* tuple (vt, std, n_eff) returned
calculate_vt(obj, weights) ==
    LET mu == Mu(weights, obj.n_injections)
        v0 == V0(obj.livetime, obj.volume)
        vt == FMul(mu, v0)
        variance == Variance(weights, mu, obj.n_injections, v0)
    IN  [mu |-> mu, variance |-> variance,
         vt |-> vt, std |-> FSqrt(variance),
         n_eff |-> FDiv(FMul(vt, vt), variance)]

InitVT ==
    /\ vtObj \in VTObjects
    /\ vtTarget \in {"None", "given"}
    /\ vtWeights = <<>>
    /\ vtResult = <<>>
    /\ pcVT = "call"

IdleVT ==
    /\ vtObj = <<>>
    /\ vtTarget = "None"
    /\ vtWeights = <<>>
    /\ vtResult = <<>>
    /\ pcVT = "idle"

\* line 154: weights = self.weights(target)
VTWeights ==
    /\ pcVT = "call"
    /\ vtWeights' = Weights(vtObj.recovered_parameters, vtTarget)
    /\ pcVT' = "weighted"
    /\ UNCHANGED <<vtObj, vtTarget, vtResult>>
    /\ UNCHANGED notVTVars

\* lines 155-166: the estimate, returned
VTEstimate ==
    /\ pcVT = "weighted"
    /\ vtResult' = calculate_vt(vtObj, vtWeights)
    /\ pcVT' = "done"
    /\ UNCHANGED <<vtObj, vtTarget, vtWeights>>
    /\ UNCHANGED notVTVars

NextVT == VTWeights \/ VTEstimate

----------------------------------------------------------------------------
(* merge_output                                                            *)

\* the dataset names of the per-unit archives
Keys == {"waveforms", "geocent_time"}

\* A per-unit archive: every dataset of a unit has one row per waveform
\* of the unit, rows of them; the attribute n_rejected may be missing
\* (has_n_rejected). Row i of dataset key of unit u is written <<key, u, i>>.
UnitArchives ==
    {a \in [rows : 0..MaxRows, has_n_rejected : BOOLEAN, n_rejected : 0..MaxRejected] :
        ~a.has_n_rejected => a.n_rejected = 0}

UnitDataset(key, u, archive) == [i \in 1..archive.rows |-> <<key, u, i>>]

\* the dataset replaced instead of extended: datasets[key] = list(value)
MutExtendDataset(existing, value) == value

\* line 44: datasets[key].extend(value)
ExtendDataset(existing, value) == existing \o value

\* the count replaced instead of added to: n_rejected = h5f.attrs["n_rejected"]
MutAddRejected(count, attr) == attr

\* line 45: n_rejected += h5f.attrs["n_rejected"]
AddRejected(count, attr) == count + attr

InitMerge ==
    /\ mergeUnits \in UNION {[1..k -> UnitArchives] : k \in 0..MaxUnits}
    /\ mergeOnDisk = DOMAIN mergeUnits
    /\ mergeOrder = <<>>
    /\ datasets = [key \in {} |-> <<>>]
    /\ n_rejected = 0
    /\ mergeOut = "absent"
    /\ pcMerge = "loop"

IdleMerge ==
    /\ mergeUnits = <<>>
    /\ mergeOnDisk = {}
    /\ mergeOrder = <<>>
    /\ datasets = <<>>
    /\ n_rejected = 0
    /\ mergeOut = "absent"
    /\ pcMerge = "idle"

\* the archives glob("*.hdf5") has yet to yield; it yields them in any order
MergePending == DOMAIN mergeUnits \ {mergeOrder[i] : i \in 1..Len(mergeOrder)}

\* lines 43-44: datasets after the datasets of archive u were gone through;
\* a defaultdict, so a key starts as the empty list when first met
DatasetsWith(u) ==
    [key \in Keys |->
        ExtendDataset(IF key \in DOMAIN datasets THEN datasets[key] ELSE <<>>,
                      UnitDataset(key, u, mergeUnits[u]))]

\* lines 41-46, one pass of the for loop over an archive that has the
\* attribute: its datasets are added, its count is added, it is deleted
MergeFile(u) ==
    /\ pcMerge = "loop"
    /\ u \in MergePending
    /\ mergeUnits[u].has_n_rejected
    /\ mergeOrder' = Append(mergeOrder, u)
    /\ datasets' = DatasetsWith(u)
    /\ n_rejected' = AddRejected(n_rejected, mergeUnits[u].n_rejected)
    /\ mergeOnDisk' = mergeOnDisk \ {u}
    /\ UNCHANGED <<mergeUnits, mergeOut, pcMerge>>
    /\ UNCHANGED notMergeVars

\* lines 41-45, a pass over an archive without the attribute: its datasets
\* are added, then h5f.attrs["n_rejected"] raises KeyError, which nothing
\* catches: the archive is not deleted and nothing is written
MergeFileRaises(u) ==
    /\ pcMerge = "loop"
    /\ u \in MergePending
    /\ ~mergeUnits[u].has_n_rejected
    /\ mergeOrder' = Append(mergeOrder, u)
    /\ datasets' = DatasetsWith(u)
    /\ pcMerge' = "raised"
    /\ UNCHANGED <<mergeUnits, mergeOnDisk, n_rejected, mergeOut>>
    /\ UNCHANGED notMergeVars

\* lines 48-55: the loop is over, the merged archive is written
MergeWrite ==
    /\ pcMerge = "loop"
    /\ MergePending = {}
    /\ mergeOut' = [data |-> datasets, n_rejected |-> n_rejected]
    /\ pcMerge' = "done"
    /\ UNCHANGED <<mergeUnits, mergeOnDisk, mergeOrder, datasets, n_rejected>>
    /\ UNCHANGED notMergeVars

NextMerge ==
    \/ \E u \in 1..MaxUnits : MergeFile(u)
    \/ \E u \in 1..MaxUnits : MergeFileRaises(u)
    \/ MergeWrite

----------------------------------------------------------------------------
(* main of scripts/timeslides.py: the loop over segments and shifts        *)

\* the ifos inferred from the channels, line 89: two of them
Ifos == 1..2

SlideSegment == {g \in (0..MaxSlideGPS) \X (0..MaxSlideGPS) : g[1] < g[2]}

\* segment lists as the segment query returns them: ordered and disjoint
SlideSegmentLists ==
    UNION {{l \in [1..k -> SlideSegment] :
               \A i \in 1..(k - 1) : l[i][2] <= l[i + 1][1]} :
           k \in 0..MaxSlideSegments}

\* the arguments: the first ifo is never shifted (increment 0), the second
\* is shifted by multiples of its increment
SlideArgs ==
    [segments : SlideSegmentLists,
     shifts : {<<0, d>> : d \in 0..MaxShiftArg},
     n_slides : 1..MaxSlides]

Max(a, b) == IF a > b THEN a ELSE b

\* line 111: max_shift = max(shifts) * n_slides
MaxShift(shifts, n_slides) == Max(shifts[1], shifts[2]) * n_slides

\* make_shifts(ifos, shifts, n_slides), line 112: the shifts of the slides,
\* each one multiple of its increment per ifo, the multiples of the shifted
\* ifos enumerated together; an ifo of increment 0 is never shifted. The
\* multiples run over 0..n_slides, which covers both conventions of what
\* the first slide is.
MakeShifts(shifts, n_slides) ==
    LET multiples(i) == IF shifts[i] = 0 THEN {0} ELSE 0..n_slides
        all == {<<m1 * shifts[1], m2 * shifts[2]>> :
                    m1 \in multiples(1), m2 \in multiples(2)}
        RECURSIVE ordered(_)
        ordered(S) ==
            IF S = {} THEN <<>>
            ELSE LET least == CHOOSE x \in S :
                         \A y \in S : x[1] < y[1] \/ (x[1] = y[1] /\ x[2] <= y[2])
                 IN  <<least>> \o ordered(S \ {least})
    IN  ordered(all)

\* line 133: dur = segment_stop - segment_start - max_shift
Dur(segment, max_shift) == segment[2] - segment[1] - max_shift

\* lines 199-203: the window cropped for every ifo of a shift,
\* start = segment_start + shift_val and crop(start, start + dur)
CropWindows(segment, shift_vals, d) ==
    {[ifo |-> i, lo |-> segment[1] + shift_vals[i],
      hi |-> segment[1] + shift_vals[i] + d] : i \in Ifos}

InitSlides ==
    /\ slArgs \in SlideArgs
    /\ seg_index = 0
    /\ segment_shifts = <<>>
    /\ dur = 0
    /\ windows = {}
    /\ futuresPending = 0
    /\ futuresFailed = 0
    /\ stalePending = 0
    /\ visited = {}
    /\ pcSlides = "for_segment"

IdleSlides ==
    /\ slArgs = <<>>
    /\ seg_index = 0
    /\ segment_shifts = <<>>
    /\ dur = 0
    /\ windows = {}
    /\ futuresPending = 0
    /\ futuresFailed = 0
    /\ stalePending = 0
    /\ visited = {}
    /\ pcSlides = "idle"

\* lines 132-149: the for loop takes the next segment, and check_segment
\* finds shifts of it that are still to generate
SegmentBegin ==
    /\ pcSlides = "for_segment"
    /\ seg_index < Len(slArgs.segments)
    /\ seg_index' = seg_index + 1
    /\ visited' = visited \cup {seg_index + 1}
    /\ dur' = Dur(slArgs.segments[seg_index + 1],
                  MaxShift(slArgs.shifts, slArgs.n_slides))
    /\ segment_shifts' = MakeShifts(slArgs.shifts, slArgs.n_slides)
    /\ windows' = {}
    /\ pcSlides' = "download"
    /\ UNCHANGED <<slArgs, futuresPending, futuresFailed, stalePending>>
    /\ UNCHANGED notSlideVars

\* lines 132-148: check_segment finds all data of the segment on disk,
\* len(segment_shifts) == 0, continue
SegmentSkip ==
    /\ pcSlides = "for_segment"
    /\ seg_index < Len(slArgs.segments)
    /\ seg_index' = seg_index + 1
    /\ visited' = visited \cup {seg_index + 1}
    /\ dur' = Dur(slArgs.segments[seg_index + 1],
                  MaxShift(slArgs.shifts, slArgs.n_slides))
    /\ segment_shifts' = <<>>
    /\ windows' = {}
    /\ UNCHANGED <<slArgs, futuresPending, futuresFailed, stalePending, pcSlides>>
    /\ UNCHANGED notSlideVars

\* lines 168-177: TimeSeriesDict.get returns the strain of the segment;
\* futures = []
Download ==
    /\ pcSlides = "download"
    /\ futuresPending' = 0
    /\ futuresFailed' = 0
    /\ pcSlides' = "for_shift"
    /\ UNCHANGED <<slArgs, seg_index, segment_shifts, dur, windows,
                   stalePending, visited>>
    /\ UNCHANGED notSlideVars

\* lines 168-170: TimeSeriesDict.get raises, the strain cannot be had;
\* nothing in main catches it
DownloadRaises ==
    /\ pcSlides = "download"
    /\ pcSlides' = "aborted"
    /\ UNCHANGED <<slArgs, seg_index, segment_shifts, dur, windows,
                   futuresPending, futuresFailed, stalePending, visited>>
    /\ UNCHANGED notSlideVars

\* the number of writes one shift submits: submit_write at lines 205 and 284
WritesPerShift == 1 + 1

\* lines 179-299, one pass of the inner loop: the windows of the shift are
\* cropped, and the write of the background and the write of the injected
\* data are submitted to the pool and appended to futures
ProcessShift ==
    /\ pcSlides = "for_shift"
    /\ segment_shifts # <<>>
    /\ windows' = CropWindows(slArgs.segments[seg_index], Head(segment_shifts), dur)
    /\ futuresPending' = futuresPending + WritesPerShift
    /\ segment_shifts' = Tail(segment_shifts)
    /\ UNCHANGED <<slArgs, seg_index, dur, futuresFailed, stalePending,
                   visited, pcSlides>>
    /\ UNCHANGED notSlideVars

\* the inner loop is over: main reaches wait at line 306
ShiftsDone ==
    /\ pcSlides = "for_shift"
    /\ segment_shifts = <<>>
    /\ pcSlides' = "wait"
    /\ UNCHANGED <<slArgs, seg_index, segment_shifts, dur, windows,
                   futuresPending, futuresFailed, stalePending, visited>>
    /\ UNCHANGED notSlideVars

\* a pool worker finishes a write of the list futures
WriteCompletes ==
    /\ pcSlides \in {"for_shift", "wait"}
    /\ futuresPending > 0
    /\ futuresPending' = futuresPending - 1
    /\ UNCHANGED <<slArgs, seg_index, segment_shifts, dur, windows,
                   futuresFailed, stalePending, visited, pcSlides>>
    /\ UNCHANGED notSlideVars

\* a write of the list futures raises in its pool worker
WriteRaises ==
    /\ pcSlides \in {"for_shift", "wait"}
    /\ futuresPending > 0
    /\ futuresPending' = futuresPending - 1
    /\ futuresFailed' = futuresFailed + 1
    /\ UNCHANGED <<slArgs, seg_index, segment_shifts, dur, windows,
                   stalePending, visited, pcSlides>>
    /\ UNCHANGED notSlideVars

\* a pool worker ends a write of an earlier segment, one way or the other
StaleWriteEnds ==
    /\ stalePending > 0
    /\ stalePending' = stalePending - 1
    /\ UNCHANGED <<slArgs, seg_index, segment_shifts, dur, windows,
                   futuresPending, futuresFailed, visited, pcSlides>>
    /\ UNCHANGED notSlideVars

\* concurrent.futures.wait(fs, return_when=FIRST_EXCEPTION) may return:
\* a future has raised, or none is running any more
WaitMayReturn(pending, failed) == failed > 0 \/ pending = 0

\* line 306: wait(futures, return_when=FIRST_EXCEPTION) returns, its value
\* is dropped and the for loop goes on; the writes still running keep
\* running in the pool
WaitReturns ==
    /\ pcSlides = "wait"
    /\ WaitMayReturn(futuresPending, futuresFailed)
    /\ stalePending' = stalePending + futuresPending
    /\ futuresPending' = 0
    /\ futuresFailed' = 0
    /\ pcSlides' = "for_segment"
    /\ UNCHANGED <<slArgs, seg_index, segment_shifts, dur, windows, visited>>
    /\ UNCHANGED notSlideVars

\* the for loop over segments is exhausted: main returns
SlidesFinish ==
    /\ pcSlides = "for_segment"
    /\ seg_index = Len(slArgs.segments)
    /\ pcSlides' = "finished"
    /\ UNCHANGED <<slArgs, seg_index, segment_shifts, dur, windows,
                   futuresPending, futuresFailed, stalePending, visited>>
    /\ UNCHANGED notSlideVars

NextSlides ==
    \/ SegmentBegin
    \/ SegmentSkip
    \/ Download
    \/ DownloadRaises
    \/ ProcessShift
    \/ ShiftsDone
    \/ WriteCompletes
    \/ WriteRaises
    \/ StaleWriteEnds
    \/ WaitReturns
    \/ SlidesFinish

----------------------------------------------------------------------------
(* Injector of infer/data/injector.py                                      *)

\* a response of the injection set: its first sample, counted in samples
\* from the start the Injector is constructed with, and its length; its
\* k-th sample has the value k
Waveforms == [first : 0..(MaxChunk * MaxCalls - 1), samples : 1..MaxWaveLen]

RECURSIVE SetsUpTo(_, _)
\* the subsets of S of at most k elements
SetsUpTo(S, k) ==
    IF k = 0 THEN {{}}
    ELSE LET smaller == SetsUpTo(S, k - 1)
         IN  smaller \cup {T \cup {w} : T \in smaller, w \in S}

ResponseSets == SetsUpTo(Waveforms, MaxWaveforms)

\* the responses whose window holds sample j
Covering(injection_set, j) ==
    {w \in injection_set : w.first <= j /\ j < w.first + w.samples}

RECURSIVE SumSamples(_, _)
\* the sum at sample j of the responses of the set W, all of them covering j
SumSamples(W, j) ==
    IF W = {} THEN 0
    ELSE LET w == CHOOSE v \in W : TRUE
         IN  (j - w.first + 1) + SumSamples(W \ {w}, j)

\* the sample of x that the time start falls on, from the construction start
SampleOffset(start, start0, sample_rate) ==
    FMul(FSub(start, start0), Fin(sample_rate, 1)).n

\* LigoResponseSet.inject(x, start): every sample of x gets the sum of the
\* responses aligned with it added
InjectInto(arr, injection_set, offset) ==
    [i \in 1..Len(arr) |->
        arr[i] + SumSamples(Covering(injection_set, offset + i - 1), offset + i - 1)]

\* the background sample at position j of the stream
Background(j) == 10 * (j + 1)

\* no copy: inject is handed x itself
MutCopyArray(heap, ref) == [heap |-> heap, ref |-> ref]

\* line 29, x.copy(): a new array of the same content
CopyArray(heap, ref) == [heap |-> Append(heap, heap[ref]), ref |-> Len(heap) + 1]

\* the sample rate left out: self.start += x.shape[-1]
MutAdvanceStart(start, n, sample_rate) == FAdd(start, Fin(n, 1))

\* line 30: self.start += x.shape[-1] / self.sample_rate
AdvanceStart(start, n, sample_rate) ==
    FAdd(start, FDiv(Fin(n, 1), Fin(sample_rate, 1)))

InitInjector ==
    /\ injStart0 \in 0..MaxInjStart
    /\ injector \in [injection_set : ResponseSets,
                    start : {Fin(injStart0, 1)},
                    sample_rate : 1..MaxInjRate]
    /\ injAt = Fin(0, 1)
    /\ xArr = <<>>
    /\ xAtCall = <<>>
    /\ injResult = <<>>
    /\ injCalls = 0
    /\ injLengths = <<>>
    /\ pcInjector = "constructed"

IdleInjector ==
    /\ injStart0 = 0
    /\ injector = <<>>
    /\ injAt = Fin(0, 1)
    /\ xArr = <<>>
    /\ xAtCall = <<>>
    /\ injResult = <<>>
    /\ injCalls = 0
    /\ injLengths = <<>>
    /\ pcInjector = "idle"

\* lines 28-31, __call__(x) with the next n samples of the stream: inject
\* either adds in place and returns its argument or returns a new array
InjectorCall(n, in_place) ==
    /\ pcInjector \in {"constructed", "called"}
    /\ injCalls < MaxCalls
    /\ LET offset == SampleOffset(injector.start, Fin(injStart0, 1),
                                  injector.sample_rate)
           x == [i \in 1..n |-> Background(offset + i - 1)]
           copied == CopyArray(<<x>>, 1)
           injected == InjectInto(copied.heap[copied.ref],
                                  injector.injection_set, offset)
           heap == IF in_place
                   THEN [copied.heap EXCEPT ![copied.ref] = injected]
                   ELSE Append(copied.heap, injected)
           x_inj == IF in_place THEN copied.ref ELSE Len(heap)
       IN  /\ xAtCall' = x
           /\ xArr' = heap[1]
           /\ injResult' = <<heap[1], heap[x_inj]>>
    /\ injAt' = injector.start
    /\ injector' = [injector EXCEPT
                       !.start = AdvanceStart(@, n, injector.sample_rate)]
    /\ injCalls' = injCalls + 1
    /\ injLengths' = Append(injLengths, n)
    /\ pcInjector' = "called"
    /\ UNCHANGED injStart0
    /\ UNCHANGED notInjectorVars

NextInjector == \E n \in 1..MaxChunk, in_place \in BOOLEAN : InjectorCall(n, in_place)

----------------------------------------------------------------------------
(* params.h5: the append of lines 287-299 of scripts/timeslides.py         *)

\* the keys of the dict parameters
ParamKeys == {"geocent_time", "snr"}

\* the array parameters[key] of batch b with n rows; row i is <<key, b, i>>
ParamBatch(key, b, n) == [i \in 1..n |-> <<key, b, i>>]

\* a row that resize adds and nothing has written yet
FillRow == <<"", 0, 0>>

\* line 298: dataset.resize(len(dataset) + len(v), axis=0)
Resize(dataset, length) ==
    [i \in 1..length |-> IF i <= Len(dataset) THEN dataset[i] ELSE FillRow]

\* the rows that the slice [-n:] selects in a dataset: -0 is 0, so the
\* slice of an empty v is the whole dataset
TailSlice(dataset, n) ==
    IF n = 0 THEN 1..Len(dataset)
    ELSE {i \in 1..Len(dataset) : i > Len(dataset) - n}

\* the assignment goes to the first rows: dataset[: len(v)] = v
MutAssignTail(dataset, v) ==
    [i \in 1..Len(dataset) |-> IF i <= Len(v) THEN v[i] ELSE dataset[i]]

\* line 299: dataset[-len(v) :] = v, for a v as long as the slice
AssignTail(dataset, v) ==
    [i \in 1..Len(dataset) |->
        IF i \in TailSlice(dataset, Len(v))
        THEN v[i - (Len(dataset) - Len(v))]
        ELSE dataset[i]]

\* lines 291-299 for one key of a batch that raises nothing
WriteKey(file, key, v) ==
    IF key \notin DOMAIN file THEN v
    ELSE AssignTail(Resize(file[key], Len(file[key]) + Len(v)), v)

\* line 299 raises: v does not have the shape of the slice it is assigned to
\* (an empty v and a dataset that is not empty)
AssignRaises(file, key, n) ==
    /\ key \in DOMAIN file
    /\ Cardinality(TailSlice(Resize(file[key], Len(file[key]) + n), n)) # n

InitParams ==
    /\ paramsFile = [key \in {} |-> <<>>]
    /\ paramsBatches = <<>>
    /\ pcParams = "closed"

IdleParams ==
    /\ paramsFile = [key \in {} |-> <<>>]
    /\ paramsBatches = <<>>
    /\ pcParams = "idle"

\* lines 289-299: the parameters of one unit, n rows per key, are written
WriteParams(n) ==
    /\ pcParams = "closed"
    /\ Len(paramsBatches) < MaxBatches
    /\ \A key \in ParamKeys : ~AssignRaises(paramsFile, key, n)
    /\ paramsFile' =
           [key \in ParamKeys |->
               WriteKey(paramsFile, key, ParamBatch(key, Len(paramsBatches) + 1, n))]
    /\ paramsBatches' = Append(paramsBatches, n)
    /\ UNCHANGED pcParams
    /\ UNCHANGED notParamsVars

\* lines 289-299: the assignment of the first key raises; the resize before
\* it added no row, the file is closed as it was
WriteParamsRaises(n) ==
    /\ pcParams = "closed"
    /\ Len(paramsBatches) < MaxBatches
    /\ \E key \in ParamKeys :
           /\ AssignRaises(paramsFile, key, n)
           /\ paramsFile' =
                  [paramsFile EXCEPT ![key] = Resize(@, Len(paramsFile[key]) + n)]
    /\ paramsBatches' = Append(paramsBatches, n)
    /\ pcParams' = "raised"
    /\ UNCHANGED notParamsVars

NextParams ==
    \/ \E n \in 0..MaxBatchRows : WriteParams(n)
    \/ \E n \in 0..MaxBatchRows : WriteParamsRaises(n)

----------------------------------------------------------------------------
(* read_channel of deploy/dataloading.py                                   *)

\* line 174: for i in range(3)
ReadAttempts == 3

\* what one call of TimeSeries.read does: it raises a ValueError or a
\* RuntimeError, with one of the two messages the code recognises or with
\* another one, or it returns a series of some length and sample rate
ReadOutcomes ==
    [kind : {"ValueError"}, msg : {"2-dimensional data", "other"},
     len : {0}, rate : {1}]
    \cup [kind : {"RuntimeError"}, msg : {"Failed to read the core", "other"},
          len : {0}, rate : {1}]
    \cup [kind : {"series"}, msg : {""},
          len : 0..MaxReadLen, rate : 1..MaxReadRate]

\* lines 177-188 and 191-198: the exception is one of the two recognised ones
Recognised(read) ==
    \/ read.kind = "ValueError" /\ read.msg = "2-dimensional data"
    \/ read.kind = "RuntimeError" /\ read.msg = "Failed to read the core"

\* lines 167-170, resample: a series of another rate is resampled, which
\* scales its number of samples by the ratio of the rates
Resample(read, sample_rate) ==
    IF read.rate # sample_rate
    THEN [len |-> FloorDiv(read.len * sample_rate, read.rate), rate |-> sample_rate]
    ELSE [len |-> read.len, rate |-> read.rate]

\* no test of the length
MutWrongLength(x, sample_rate) == FALSE

\* line 203: len(x) != sample_rate
WrongLength(x, sample_rate) == x.len # sample_rate

\* the attempt is followed by another one: continue at line 188, 198 or 212
Retried(read, sample_rate) ==
    \/ Recognised(read)
    \/ read.kind = "series" /\ WrongLength(Resample(read, sample_rate), sample_rate)

InitRead ==
    /\ rcSampleRate \in 1..MaxReadRate
    /\ rcReads = <<>>
    /\ rcResult = <<>>
    /\ rcRaised = ""
    /\ pcRead = "loop"

IdleRead ==
    /\ rcSampleRate = 0
    /\ rcReads = <<>>
    /\ rcResult = <<>>
    /\ rcRaised = ""
    /\ pcRead = "idle"

\* lines 174-212: an attempt that ends in continue
ReadRetry(read) ==
    /\ pcRead = "loop"
    /\ Len(rcReads) < ReadAttempts
    /\ Retried(read, rcSampleRate)
    /\ rcReads' = Append(rcReads, read)
    /\ UNCHANGED <<rcSampleRate, rcResult, rcRaised, pcRead>>
    /\ UNCHANGED notReadVars

\* lines 189-190 and 199-200: an exception that is not recognised is raised
\* again
ReadReraises(read) ==
    /\ pcRead = "loop"
    /\ Len(rcReads) < ReadAttempts
    /\ read.kind # "series"
    /\ ~Recognised(read)
    /\ rcReads' = Append(rcReads, read)
    /\ rcRaised' = read.kind
    /\ pcRead' = "raised"
    /\ UNCHANGED <<rcSampleRate, rcResult>>
    /\ UNCHANGED notReadVars

\* lines 202-214: the series read, resampled, is returned
ReadReturns(read) ==
    /\ pcRead = "loop"
    /\ Len(rcReads) < ReadAttempts
    /\ read.kind = "series"
    /\ ~WrongLength(Resample(read, rcSampleRate), rcSampleRate)
    /\ rcReads' = Append(rcReads, read)
    /\ rcResult' = Resample(read, rcSampleRate)
    /\ pcRead' = "returned"
    /\ UNCHANGED <<rcSampleRate, rcRaised>>
    /\ UNCHANGED notReadVars

\* lines 215-218: the loop is exhausted, the else of the for raises
ReadGivesUp ==
    /\ pcRead = "loop"
    /\ Len(rcReads) = ReadAttempts
    /\ rcRaised' = "ValueError: Failed to read channel {channel} in file {fname}"
    /\ pcRead' = "raised"
    /\ UNCHANGED <<rcSampleRate, rcReads, rcResult>>
    /\ UNCHANGED notReadVars

NextRead ==
    \/ \E read \in ReadOutcomes : ReadRetry(read)
    \/ \E read \in ReadOutcomes : ReadReraises(read)
    \/ \E read \in ReadOutcomes : ReadReturns(read)
    \/ ReadGivesUp

----------------------------------------------------------------------------
(* VolumeTimeIntegral.__post_init__ and calculate_astrophysical_volume     *)

\* declinations, in units of pi/6: those of -pi/2..pi/2 whose sine is
\* rational
Declinations == {-3, -1, 0, 1, 3}

\* line 16: PI_OVER_TWO, in units of pi/6
PI_OVER_TWO == 3

\* an argument of the call: None, or an angle
NoneArg == [none |-> TRUE, value |-> 0]
Angle(k) == [none |-> FALSE, value |-> k]

\* twice the cosine of the angle t * pi/6
TwiceCos(t) ==
    CASE t = 0 -> 2
      [] t = 2 -> 1
      [] t = 3 -> 0
      [] t = 4 -> -1
      [] t = 6 -> -2

\* lines 50-54: theta_max = pi/2 - dec_min, theta_min = pi/2 - dec_max and
\* omega = -2 pi (cos(theta_max) - cos(theta_min)), in units of pi
Omega(dec_min, dec_max) ==
    LET theta_max == PI_OVER_TWO - dec_min
        theta_min == PI_OVER_TWO - dec_max
    IN  0 - (TwiceCos(theta_max) - TwiceCos(theta_min))

\* the priors: a distance range and, when has_dec, a declination range
VolumeSources ==
    {p \in [has_dec : BOOLEAN, dec_min : Declinations, dec_max : Declinations,
            dl_min : 1..MaxDl, dl_max : 1..MaxDl] :
        /\ p.dl_min < p.dl_max
        /\ p.dec_min <= p.dec_max
        /\ ~p.has_dec => (p.dec_min = 0 /\ p.dec_max = 0)}

InitVolume ==
    /\ volSource \in VolumeSources
    /\ volArgs = <<>>
    /\ volOmega = 0
    /\ volVolume = 0
    /\ pcVolume = "post_init"

IdleVolume ==
    /\ volSource = <<>>
    /\ volArgs = <<>>
    /\ volOmega = 0
    /\ volVolume = 0
    /\ pcVolume = "idle"

\* lines 103-105: the source has a dec prior
PostInitDec ==
    /\ pcVolume = "post_init"
    /\ volSource.has_dec
    /\ volArgs' = [dec_min |-> Angle(volSource.dec_min),
                   dec_max |-> Angle(volSource.dec_max)]
    /\ pcVolume' = "call"
    /\ UNCHANGED <<volSource, volOmega, volVolume>>
    /\ UNCHANGED notVolumeVars

\* lines 106-107: it has none, dec_min = dec_max = None; both are passed by
\* keyword at lines 114-115, in place of the defaults of lines 23-24
PostInitNoDec ==
    /\ pcVolume = "post_init"
    /\ ~volSource.has_dec
    /\ volArgs' = [dec_min |-> NoneArg, dec_max |-> NoneArg]
    /\ pcVolume' = "call"
    /\ UNCHANGED <<volSource, volOmega, volVolume>>
    /\ UNCHANGED notVolumeVars

\* lines 43-54: the redshifts, then the angles and omega
SolidAngle ==
    /\ pcVolume = "call"
    /\ ~volArgs.dec_min.none /\ ~volArgs.dec_max.none
    /\ volOmega' = Omega(volArgs.dec_min.value, volArgs.dec_max.value)
    /\ pcVolume' = "quad"
    /\ UNCHANGED <<volSource, volArgs, volVolume>>
    /\ UNCHANGED notVolumeVars

\* line 49: dec_min * u.rad with dec_min None raises TypeError
SolidAngleRaises ==
    /\ pcVolume = "call"
    /\ volArgs.dec_min.none \/ volArgs.dec_max.none
    /\ pcVolume' = "raised"
    /\ UNCHANGED <<volSource, volArgs, volOmega, volVolume>>
    /\ UNCHANGED notVolumeVars

\* lines 58-62: quad integrates over redshift, the volume is the integral
\* times omega
Quad(integral) ==
    /\ pcVolume = "quad"
    /\ volVolume' = integral * volOmega
    /\ pcVolume' = "done"
    /\ UNCHANGED <<volSource, volArgs, volOmega>>
    /\ UNCHANGED notVolumeVars

NextVolume ==
    \/ PostInitDec
    \/ PostInitNoDec
    \/ SolidAngle
    \/ SolidAngleRaises
    \/ \E integral \in 1..MaxRadial : Quad(integral)

----------------------------------------------------------------------------
(* main of generate_background.py                                          *)

\* the argument ifos
BgIfos == <<"H1", "L1">>

BgSegment == {g \in (0..MaxBgGPS) \X (0..MaxBgGPS) : g[1] < g[2]}

\* the active segments of a flag: ordered, disjoint and coalesced
ActiveLists ==
    UNION {{l \in [1..k -> BgSegment] :
               \A i \in 1..(k - 1) : l[i][2] < l[i + 1][1]} :
           k \in 0..MaxBgSegments}

RECURSIVE SortSegments(_)
\* the segments of the set S as a list ordered by start
SortSegments(S) ==
    IF S = {} THEN <<>>
    ELSE LET first == CHOOSE g \in S : \A h \in S : g[1] <= h[1]
         IN  <<first>> \o SortSegments(S \ {first})

\* the operator & of segment lists: the overlaps of the segments of the two
\* lists that are not empty, in order
Intersect(l1, l2) ==
    SortSegments(
        {<<Max(l1[i][1], l2[j][1]), Min(l1[i][2], l2[j][2])>> :
             i \in 1..Len(l1), j \in 1..Len(l2)}
        \cap BgSegment)

\* the test is strict: segment_lengths > minimum_length
MutLongEnough(length, minimum) == length > minimum

\* line 53: segment_lengths >= minimum_length
LongEnough(length, minimum) == length >= minimum

\* lines 50-53: np.where(segment_lengths >= minimum_length)[0]
ContinuousSegments(segs, minimum) ==
    {i \in 1..Len(segs) : LongEnough(segs[i][2] - segs[i][1], minimum)}

\* continuous_segments[0]: np.where gives the indices in increasing order
FirstIndex(indices) == CHOOSE i \in indices : \A j \in indices : i <= j

\* lines 36-43: the query, and the copy of the list of the first ifo
InitBackground ==
    /\ bgActive \in [1..Len(BgIfos) -> ActiveLists]
    /\ minimum_length \in 0..MaxMinLength
    /\ intersection = bgActive[1]
    /\ bgIfo = 1
    /\ bgSegment = <<>>
    /\ bgFiles = {}
    /\ pcBackground = "intersect"

IdleBackground ==
    /\ bgActive = <<>>
    /\ minimum_length = 0
    /\ intersection = <<>>
    /\ bgIfo = 0
    /\ bgSegment = <<>>
    /\ bgFiles = {}
    /\ pcBackground = "idle"

\* lines 46-47: one pass of the loop over ifos
IntersectIfo ==
    /\ pcBackground = "intersect"
    /\ bgIfo <= Len(BgIfos)
    /\ intersection' = Intersect(intersection, bgActive[bgIfo])
    /\ bgIfo' = bgIfo + 1
    /\ UNCHANGED <<bgActive, minimum_length, bgSegment, bgFiles, pcBackground>>
    /\ UNCHANGED notBackgroundVars

\* the loop over ifos is over
IntersectDone ==
    /\ pcBackground = "intersect"
    /\ bgIfo > Len(BgIfos)
    /\ pcBackground' = "select"
    /\ UNCHANGED <<bgActive, minimum_length, intersection, bgIfo, bgSegment, bgFiles>>
    /\ UNCHANGED notBackgroundVars

\* lines 50-61: the first segment of minimum length is chosen
SelectSegment ==
    /\ pcBackground = "select"
    /\ ContinuousSegments(intersection, minimum_length) # {}
    /\ bgSegment' =
           intersection[FirstIndex(ContinuousSegments(intersection, minimum_length))]
    /\ bgIfo' = 1
    /\ pcBackground' = "write"
    /\ UNCHANGED <<bgActive, minimum_length, intersection, bgFiles>>
    /\ UNCHANGED notBackgroundVars

\* lines 55-58: there is none, ValueError
SelectRaises ==
    /\ pcBackground = "select"
    /\ ContinuousSegments(intersection, minimum_length) = {}
    /\ pcBackground' = "raised"
    /\ UNCHANGED <<bgActive, minimum_length, intersection, bgIfo, bgSegment, bgFiles>>
    /\ UNCHANGED notBackgroundVars

\* lines 68-86: the data of one ifo over the segment is read and written
WriteBackground ==
    /\ pcBackground = "write"
    /\ bgIfo <= Len(BgIfos)
    /\ bgFiles' = bgFiles \cup {<<BgIfos[bgIfo], bgSegment>>}
    /\ bgIfo' = bgIfo + 1
    /\ UNCHANGED <<bgActive, minimum_length, intersection, bgSegment, pcBackground>>
    /\ UNCHANGED notBackgroundVars

\* the loop of lines 68-86 is over: main returns
BackgroundDone ==
    /\ pcBackground = "write"
    /\ bgIfo > Len(BgIfos)
    /\ pcBackground' = "done"
    /\ UNCHANGED <<bgActive, minimum_length, intersection, bgIfo, bgSegment, bgFiles>>
    /\ UNCHANGED notBackgroundVars

NextBackground ==
    \/ IntersectIfo
    \/ IntersectDone
    \/ SelectSegment
    \/ SelectRaises
    \/ WriteBackground
    \/ BackgroundDone

----------------------------------------------------------------------------
(* batch_chunks of mdc/data/batcher.py                                     *)

BatchArgs ==
    {a \in [chunks : UNION {[1..k -> 1..MaxBcChunkLen] : k \in 0..MaxBcChunks},
            num_steps : 0..MaxSteps,
            batch_size : 1..MaxBatchSize,
            sample_rate : 1..MaxBcRate,
            inference_sampling_rate : 1..MaxBcRate] :
        a.inference_sampling_rate <= a.sample_rate}

\* lines 20-21: window_stride = int(sample_rate / inference_sampling_rate)
\* and step_size = batch_size * window_stride
StepSize(a) == a.batch_size * FloorDiv(a.sample_rate, a.inference_sampling_rate)

RECURSIVE SumLengths(_, _)
\* the samples of the first k chunks together
SumLengths(chunks, k) ==
    IF k = 0 THEN 0 ELSE chunks[k] + SumLengths(chunks, k - 1)

\* chunk k of the iterator: its samples, named by their position in the
\* stream, from 0
ChunkOf(chunks, k) ==
    [j \in 1..chunks[k] |-> SumLengths(chunks, k - 1) + j - 1]

\* x[:, :, start:stop] along the last axis; a stop past the end is the end
Slice(x, start, stop) ==
    [j \in 1..(Min(stop, Len(x)) - Min(start, Len(x))) |-> x[Min(start, Len(x)) + j]]

InitBatch ==
    /\ bcArgs \in BatchArgs
    /\ bcFetched = 0
    /\ bcX = <<>>
    /\ chunk_idx = 0
    /\ bcI = 0
    /\ bcYielded = <<>>
    /\ bcRaised = ""
    /\ pcBatch = "start"

IdleBatch ==
    /\ bcArgs = <<>>
    /\ bcFetched = 0
    /\ bcX = <<>>
    /\ chunk_idx = 0
    /\ bcI = 0
    /\ bcYielded = <<>>
    /\ bcRaised = ""
    /\ pcBatch = "idle"

\* lines 37-42: x = next(it)
FirstChunk ==
    /\ pcBatch = "start"
    /\ Len(bcArgs.chunks) > 0
    /\ bcX' = ChunkOf(bcArgs.chunks, 1)
    /\ bcFetched' = 1
    /\ pcBatch' = "loop"
    /\ UNCHANGED <<bcArgs, chunk_idx, bcI, bcYielded, bcRaised>>
    /\ UNCHANGED notBatchVars

\* lines 39-40: the iterator is empty
FirstChunkRaises ==
    /\ pcBatch = "start"
    /\ Len(bcArgs.chunks) = 0
    /\ bcRaised' = "Iterator produced no values"
    /\ pcBatch' = "raised"
    /\ UNCHANGED <<bcArgs, bcFetched, bcX, chunk_idx, bcI, bcYielded>>
    /\ UNCHANGED notBatchVars

\* lines 43-50 and 77-80: x still holds a whole batch, which is yielded
StepYield ==
    /\ pcBatch = "loop"
    /\ bcI < bcArgs.num_steps
    /\ (chunk_idx + 1) * StepSize(bcArgs) <= Len(bcX)
    /\ bcYielded' = Append(bcYielded,
                           Slice(bcX, chunk_idx * StepSize(bcArgs),
                                 (chunk_idx + 1) * StepSize(bcArgs)))
    /\ chunk_idx' = chunk_idx + 1
    /\ bcI' = bcI + 1
    /\ UNCHANGED <<bcArgs, bcFetched, bcX, bcRaised, pcBatch>>
    /\ UNCHANGED notBatchVars

\* lines 43-80: it does not; what is left of x is put before the next chunk,
\* and x[:, :, 0:step_size] of that is yielded
StepRefill ==
    /\ pcBatch = "loop"
    /\ bcI < bcArgs.num_steps
    /\ (chunk_idx + 1) * StepSize(bcArgs) > Len(bcX)
    /\ bcFetched < Len(bcArgs.chunks)
    /\ LET start == chunk_idx * StepSize(bcArgs)
           remainder == IF start < Len(bcX) THEN Slice(bcX, start, Len(bcX)) ELSE <<>>
           x == remainder \o ChunkOf(bcArgs.chunks, bcFetched + 1)
       IN  /\ bcX' = x
           /\ bcYielded' = Append(bcYielded, Slice(x, 0, StepSize(bcArgs)))
    /\ bcFetched' = bcFetched + 1
    /\ chunk_idx' = 1
    /\ bcI' = bcI + 1
    /\ UNCHANGED <<bcArgs, bcRaised, pcBatch>>
    /\ UNCHANGED notBatchVars

\* lines 61-67: the iterator has run out
StepRaises ==
    /\ pcBatch = "loop"
    /\ bcI < bcArgs.num_steps
    /\ (chunk_idx + 1) * StepSize(bcArgs) > Len(bcX)
    /\ bcFetched = Len(bcArgs.chunks)
    /\ bcRaised' = "Ran out of data"
    /\ pcBatch' = "raised"
    /\ UNCHANGED <<bcArgs, bcFetched, bcX, chunk_idx, bcI, bcYielded>>
    /\ UNCHANGED notBatchVars

\* the for loop is over
StepsDone ==
    /\ pcBatch = "loop"
    /\ bcI = bcArgs.num_steps
    /\ pcBatch' = "after"
    /\ UNCHANGED <<bcArgs, bcFetched, bcX, chunk_idx, bcI, bcYielded, bcRaised>>
    /\ UNCHANGED notBatchVars

\* lines 82-85: next(it) raises StopIteration, return
AfterExhausted ==
    /\ pcBatch = "after"
    /\ bcFetched = Len(bcArgs.chunks)
    /\ pcBatch' = "returned"
    /\ UNCHANGED <<bcArgs, bcFetched, bcX, chunk_idx, bcI, bcYielded, bcRaised>>
    /\ UNCHANGED notBatchVars

\* lines 82-94: next(it) returns a chunk, x is shorter than step_size and
\* the second next(it) raises StopIteration, return
AfterShortReturns ==
    /\ pcBatch = "after"
    /\ bcFetched + 1 = Len(bcArgs.chunks)
    /\ Len(bcX) < StepSize(bcArgs)
    /\ bcFetched' = bcFetched + 1
    /\ pcBatch' = "returned"
    /\ UNCHANGED <<bcArgs, bcX, chunk_idx, bcI, bcYielded, bcRaised>>
    /\ UNCHANGED notBatchVars

\* lines 82-98: next(it) returns a chunk and x is not shorter than
\* step_size, or it is and the second next(it) returns a chunk too: the
\* ValueError of line 95, or the one of unpacking that chunk at line 92
AfterRaises ==
    /\ pcBatch = "after"
    /\ bcFetched < Len(bcArgs.chunks)
    /\ \/ /\ Len(bcX) >= StepSize(bcArgs)
          /\ bcFetched' = bcFetched + 1
       \/ /\ Len(bcX) < StepSize(bcArgs)
          /\ bcFetched + 2 <= Len(bcArgs.chunks)
          /\ bcFetched' = bcFetched + 2
    /\ bcRaised' = "data still available"
    /\ pcBatch' = "raised"
    /\ UNCHANGED <<bcArgs, bcX, chunk_idx, bcI, bcYielded>>
    /\ UNCHANGED notBatchVars

NextBatch ==
    \/ FirstChunk
    \/ FirstChunkRaises
    \/ StepYield
    \/ StepRefill
    \/ StepRaises
    \/ StepsDone
    \/ AfterExhausted
    \/ AfterShortReturns
    \/ AfterRaises

----------------------------------------------------------------------------
(* aframeWaveformInjection.forward of train/data_structures.py             *)

\* line 170: the targets of noise, one glitch and two glitches
NoiseTargets == {0, -2, -6}

\* swap_frac and mute_frac, as numbers of halves
FracHalves == 0..2

\* int(X.shape[0] * self.frac), lines 26 and 56
FracOf(n, halves) == FloorDiv(n * halves, 2)

\* lines 26-34: the number of waveforms ChannelSwapper swaps, 0 for
\* indices = None
NumSwapped(n, halves) ==
    LET num == FracOf(n, halves)
    IN  IF num > 0
        THEN Max(2, IF num % 2 = 0 THEN num ELSE num - 1)
        ELSE 0

\* the batch element of waveform k, from 0: the k-th element of the mask
ElementOf(mask, k) ==
    CHOOSE e \in DOMAIN mask :
        mask[e] /\ Cardinality({d \in 1..(e - 1) : mask[d]}) = k

\* lines 193 and 196, mask[mask][indices] = False: mask[mask] is indexing
\* by a boolean tensor, which gives a new tensor; the assignment goes to that
\* tensor and mask is as before
MaskedAssignFalse(mask, positions) == mask

\* line 199: y[mask] = -y[mask] + 1
FlipTargets(y, mask) ==
    [e \in DOMAIN y |-> IF mask[e] THEN 0 - y[e] + 1 ELSE y[e]]

InitForward ==
    /\ afY \in UNION {[1..b -> NoiseTargets] : b \in 1..MaxBatchElements}
    /\ afModule \in [training : BOOLEAN, swap_frac : FracHalves, mute_frac : FracHalves]
    /\ afMask = <<>>
    /\ afSelected = {}
    /\ afSwapped = {}
    /\ afMuted = {}
    /\ afYOut = <<>>
    /\ pcForward = "call"

IdleForward ==
    /\ afY = <<>>
    /\ afModule = <<>>
    /\ afMask = <<>>
    /\ afSelected = {}
    /\ afSwapped = {}
    /\ afMuted = {}
    /\ afYOut = <<>>
    /\ pcForward = "idle"

\* lines 167-168: not in training mode
ForwardEval ==
    /\ pcForward = "call"
    /\ ~afModule.training
    /\ afYOut' = afY
    /\ pcForward' = "returned"
    /\ UNCHANGED <<afY, afModule, afMask, afSelected, afSwapped, afMuted>>
    /\ UNCHANGED notForwardVars

\* lines 170-200 with the random mask of line 175 and the random indices of
\* ChannelMuter (line 60, with repetition)
ForwardTrain ==
    /\ pcForward = "call"
    /\ afModule.training
    /\ \E mask \in [DOMAIN afY -> BOOLEAN],
          mute_positions \in SUBSET (0..(Len(afY) - 1)) :
       LET N == Cardinality({e \in DOMAIN mask : mask[e]})
           num_swap == NumSwapped(N, afModule.swap_frac)
           num_mute == FracOf(N, afModule.mute_frac)
           swap_positions == 0..(num_swap - 1)
           masked == MaskedAssignFalse(MaskedAssignFalse(mask, mute_positions),
                                       swap_positions)
       IN  /\ num_swap <= N
           /\ mute_positions \subseteq 0..(N - 1)
           /\ Cardinality(mute_positions) <= num_mute
           /\ (num_mute > 0) = (mute_positions # {})
           /\ afSelected' = {e \in DOMAIN mask : mask[e]}
           /\ afSwapped' = {ElementOf(mask, k) : k \in swap_positions}
           /\ afMuted' = {ElementOf(mask, k) : k \in mute_positions}
           /\ afMask' = masked
           /\ afYOut' = FlipTargets(afY, masked)
    /\ pcForward' = "returned"
    /\ UNCHANGED <<afY, afModule>>
    /\ UNCHANGED notForwardVars

\* line 36 in ChannelSwapper: max(2, num) is more than the waveforms there
\* are, the indexing raises IndexError
ForwardRaises ==
    /\ pcForward = "call"
    /\ afModule.training
    /\ \E mask \in [DOMAIN afY -> BOOLEAN] :
           /\ NumSwapped(Cardinality({e \in DOMAIN mask : mask[e]}),
                         afModule.swap_frac)
                  > Cardinality({e \in DOMAIN mask : mask[e]})
           /\ afSelected' = {e \in DOMAIN mask : mask[e]}
    /\ pcForward' = "raised"
    /\ UNCHANGED <<afY, afModule, afMask, afSwapped, afMuted, afYOut>>
    /\ UNCHANGED notForwardVars

NextForward ==
    \/ ForwardEval
    \/ ForwardTrain
    \/ ForwardRaises

----------------------------------------------------------------------------
(* data_iterator and reset_t0 of deploy/dataloading.py                     *)

\* the argument ifos
DiIfos == <<"H1", "L1">>

SetMax(S) == CHOOSE x \in S : \A y \in S : y <= x
SetMin(S) == CHOOSE x \in S : \A y \in S : x <= y

\* the frame files of a directory when the iterator starts: a run of
\* consecutive frames
FrameRuns(length) ==
    {{k * length : k \in lo..hi} : lo \in 0..MaxFrame, hi \in 0..MaxFrame}

\* lines 109-114: get_prefix takes the length and the least start time of
\* the files of the first ifo, and t0 += length * 2
InitIterator ==
    /\ diLength \in 1..MaxFrameLength
    /\ diTimeout \in BOOLEAN
    /\ diFiles \in [1..Len(DiIfos) -> FrameRuns(diLength)]
    /\ diFiles[1] # {}
    /\ diT0 = SetMin(diFiles[1]) + diLength * 2
    /\ diIfo = 1
    /\ diLastT0 = 0
    /\ diYields = <<>>
    /\ pcIterator = "wait"

IdleIterator ==
    /\ diFiles = <<>>
    /\ diLength = 0
    /\ diTimeout = FALSE
    /\ diT0 = 0
    /\ diIfo = 0
    /\ diLastT0 = 0
    /\ diYields = <<>>
    /\ pcIterator = "idle"

\* a new frame file is written into the directory of an ifo, later than the
\* ones that are there
FrameArrives(ifo, k) ==
    /\ pcIterator \in {"wait", "reset"}
    /\ \A t \in diFiles[ifo] : t < k * diLength
    /\ diFiles' = [diFiles EXCEPT ![ifo] = @ \cup {k * diLength}]
    /\ UNCHANGED <<diLength, diTimeout, diT0, diIfo, diLastT0, diYields, pcIterator>>
    /\ UNCHANGED notIteratorVars

\* lines 120-155: the file of an ifo that is not the last one exists and is
\* read
ReadFrame ==
    /\ pcIterator = "wait"
    /\ diIfo < Len(DiIfos)
    /\ diT0 \in diFiles[diIfo]
    /\ diIfo' = diIfo + 1
    /\ UNCHANGED <<diFiles, diLength, diTimeout, diT0, diLastT0, diYields, pcIterator>>
    /\ UNCHANGED notIteratorVars

\* lines 120-164: the file of the last ifo exists and is read, the frames
\* are yielded with t0, and t0 += length
ReadAndYield ==
    /\ pcIterator = "wait"
    /\ diIfo = Len(DiIfos)
    /\ diT0 \in diFiles[diIfo]
    /\ Len(diYields) < MaxYields
    /\ diYields' = Append(diYields, [data |-> TRUE, t0 |-> diT0])
    /\ diT0' = diT0 + diLength
    /\ diIfo' = 1
    /\ UNCHANGED <<diFiles, diLength, diTimeout, diLastT0, pcIterator>>
    /\ UNCHANGED notIteratorVars

\* lines 125-135: the file does not exist after timeout seconds:
\* (None, t0, False) is yielded and reset_t0(data_dir / ifo, t0 - length)
\* is called
Timeout ==
    /\ pcIterator = "wait"
    /\ diTimeout
    /\ diT0 \notin diFiles[diIfo]
    /\ Len(diYields) < MaxYields
    /\ diYields' = Append(diYields, [data |-> FALSE, t0 |-> diT0])
    /\ diLastT0' = diT0 - diLength
    /\ pcIterator' = "reset"
    /\ UNCHANGED <<diFiles, diLength, diTimeout, diT0, diIfo>>
    /\ UNCHANGED notIteratorVars

\* lines 88-89 of reset_t0: t0 = max(t0s) and the test t0 != last_t0
ResetReturns(t0s, last_t0) == SetMax(t0s) # last_t0

\* lines 85-91 and 135-160: reset_t0 returns the latest start time of the
\* directory of the ifo, the for loop is left and the while loop starts over
Reset ==
    /\ pcIterator = "reset"
    /\ diFiles[diIfo] # {}
    /\ ResetReturns(diFiles[diIfo], diLastT0)
    /\ diT0' = SetMax(diFiles[diIfo])
    /\ diIfo' = 1
    /\ pcIterator' = "wait"
    /\ UNCHANGED <<diFiles, diLength, diTimeout, diLastT0, diYields>>
    /\ UNCHANGED notIteratorVars

\* line 88 of reset_t0: max of an empty list raises ValueError
ResetRaises ==
    /\ pcIterator = "reset"
    /\ diFiles[diIfo] = {}
    /\ pcIterator' = "raised"
    /\ UNCHANGED <<diFiles, diLength, diTimeout, diT0, diIfo, diLastT0, diYields>>
    /\ UNCHANGED notIteratorVars

NextIterator ==
    \/ \E ifo \in 1..Len(DiIfos), k \in 0..MaxFrame : FrameArrives(ifo, k)
    \/ ReadFrame
    \/ ReadAndYield
    \/ Timeout
    \/ Reset
    \/ ResetRaises

----------------------------------------------------------------------------
\* a call of calc_shifts_required
InitSpecShifts ==
    /\ InitShifts /\ IdleInj /\ IdleVT /\ IdleMerge /\ IdleSlides
    /\ IdleInjector /\ IdleParams /\ IdleRead /\ IdleVolume /\ IdleBackground
    /\ IdleBatch /\ IdleForward /\ IdleIterator
SpecShifts == InitSpecShifts /\ [][NextShifts]_vars

\* the interpreter keeps executing the loop: a step that can be taken is taken
FairSpecShifts == SpecShifts /\ WF_vars(NextShifts)

\* a call of calc_segment_injection_times
InitSpecInj ==
    /\ IdleShifts /\ InitInj /\ IdleVT /\ IdleMerge /\ IdleSlides
    /\ IdleInjector /\ IdleParams /\ IdleRead /\ IdleVolume /\ IdleBackground
    /\ IdleBatch /\ IdleForward /\ IdleIterator
SpecInj == InitSpecInj /\ [][NextInj]_vars

\* a call of calculate_vt
InitSpecVT ==
    /\ IdleShifts /\ IdleInj /\ InitVT /\ IdleMerge /\ IdleSlides
    /\ IdleInjector /\ IdleParams /\ IdleRead /\ IdleVolume /\ IdleBackground
    /\ IdleBatch /\ IdleForward /\ IdleIterator
SpecVT == InitSpecVT /\ [][NextVT]_vars

\* a call of merge_output
InitSpecMerge ==
    /\ IdleShifts /\ IdleInj /\ IdleVT /\ InitMerge /\ IdleSlides
    /\ IdleInjector /\ IdleParams /\ IdleRead /\ IdleVolume /\ IdleBackground
    /\ IdleBatch /\ IdleForward /\ IdleIterator
SpecMerge == InitSpecMerge /\ [][NextMerge]_vars

\* a run of main of scripts/timeslides.py
InitSpecSlides ==
    /\ IdleShifts /\ IdleInj /\ IdleVT /\ IdleMerge /\ InitSlides
    /\ IdleInjector /\ IdleParams /\ IdleRead /\ IdleVolume /\ IdleBackground
    /\ IdleBatch /\ IdleForward /\ IdleIterator
SpecSlides == InitSpecSlides /\ [][NextSlides]_vars

\* calls of an Injector
InitSpecInjector ==
    /\ IdleShifts /\ IdleInj /\ IdleVT /\ IdleMerge /\ IdleSlides
    /\ InitInjector /\ IdleParams /\ IdleRead /\ IdleVolume /\ IdleBackground
    /\ IdleBatch /\ IdleForward /\ IdleIterator
SpecInjector == InitSpecInjector /\ [][NextInjector]_vars

\* the writes of the parameters of the units of one shift into its params.h5
InitSpecParams ==
    /\ IdleShifts /\ IdleInj /\ IdleVT /\ IdleMerge /\ IdleSlides
    /\ IdleInjector /\ InitParams /\ IdleRead /\ IdleVolume /\ IdleBackground
    /\ IdleBatch /\ IdleForward /\ IdleIterator
SpecParams == InitSpecParams /\ [][NextParams]_vars

\* a call of read_channel
InitSpecRead ==
    /\ IdleShifts /\ IdleInj /\ IdleVT /\ IdleMerge /\ IdleSlides
    /\ IdleInjector /\ IdleParams /\ InitRead /\ IdleVolume /\ IdleBackground
    /\ IdleBatch /\ IdleForward /\ IdleIterator
SpecRead == InitSpecRead /\ [][NextRead]_vars

\* the construction of a VolumeTimeIntegral
InitSpecVolume ==
    /\ IdleShifts /\ IdleInj /\ IdleVT /\ IdleMerge /\ IdleSlides
    /\ IdleInjector /\ IdleParams /\ IdleRead /\ InitVolume /\ IdleBackground
    /\ IdleBatch /\ IdleForward /\ IdleIterator
SpecVolume == InitSpecVolume /\ [][NextVolume]_vars

\* a run of main of generate_background.py
InitSpecBackground ==
    /\ IdleShifts /\ IdleInj /\ IdleVT /\ IdleMerge /\ IdleSlides
    /\ IdleInjector /\ IdleParams /\ IdleRead /\ IdleVolume /\ InitBackground
    /\ IdleBatch /\ IdleForward /\ IdleIterator
SpecBackground == InitSpecBackground /\ [][NextBackground]_vars

\* a run of the generator batch_chunks to its end
InitSpecBatch ==
    /\ IdleShifts /\ IdleInj /\ IdleVT /\ IdleMerge /\ IdleSlides
    /\ IdleInjector /\ IdleParams /\ IdleRead /\ IdleVolume /\ IdleBackground
    /\ InitBatch /\ IdleForward /\ IdleIterator
SpecBatch == InitSpecBatch /\ [][NextBatch]_vars

\* a call of aframeWaveformInjection.forward
InitSpecForward ==
    /\ IdleShifts /\ IdleInj /\ IdleVT /\ IdleMerge /\ IdleSlides
    /\ IdleInjector /\ IdleParams /\ IdleRead /\ IdleVolume /\ IdleBackground
    /\ IdleBatch /\ InitForward /\ IdleIterator
SpecForward == InitSpecForward /\ [][NextForward]_vars

\* a run of the generator data_iterator
InitSpecIterator ==
    /\ IdleShifts /\ IdleInj /\ IdleVT /\ IdleMerge /\ IdleSlides
    /\ IdleInjector /\ IdleParams /\ IdleRead /\ IdleVolume /\ IdleBackground
    /\ IdleBatch /\ IdleForward /\ InitIterator
SpecIterator == InitSpecIterator /\ [][NextIterator]_vars

----------------------------------------------------------------------------
(* Claims about calc_shifts_required                                       *)

\* the total duration T of the call's segments
ClaimT == SumDurations(segments)

\* the left-hand side of the inequality of C1 as the claim writes it:
\* the sum over i = 1..n of (T - i * shift) = n*T - shift * n*(n+1)/2
SumFormula(n) == n * ClaimT - (shift * n * (n + 1)) \div 2

\* the livetime the code's shift plan yields: every one of the n slides
\* loses n * shift seconds of each segment
PlanLivetime(n) == n * ClaimT - Len(segments) * shift * n * n

\* C1 as stated: for shift > 0 and a target some count reaches, the value
\* returned satisfies sum_{i=1..N} (T - i*shift) >= Tb and N-1 violates it.
C1_SumFormulaMinimal ==
    (/\ pcShifts = "done"
     /\ shift > 0
     /\ \E k \in 1..ShiftsHorizon : SumFormula(k) >= Tb)
    => /\ shifts_required >= 1
       /\ SumFormula(shifts_required) >= Tb
       /\ shifts_required = 1 \/ SumFormula(shifts_required - 1) < Tb

\* C1 as amended: the value N returned is at least 1, satisfies
\* N * (T - n_segments * shift * N) >= Tb, and N-1 violates it.
C1_ReturnsMinimalShifts ==
    pcShifts = "done"
    => /\ shifts_required >= 1
       /\ PlanLivetime(shifts_required) >= Tb
       /\ shifts_required = 1 \/ PlanLivetime(shifts_required - 1) < Tb

C1_Witness ==
    /\ pcShifts = "done"
    /\ shift > 0
    /\ Len(segments) >= 1
    /\ shifts_required >= 3

\* no shift count reaches the target livetime
NoShiftCountReaches == \A k \in 1..ShiftsHorizon : PlanLivetime(k) < Tb

\* C2: a call whose target no shift count can reach ends by reporting an
\* "infeasible" condition to its caller.
C2_InfeasibleReported ==
    (pcShifts = "loop" /\ NoShiftCountReaches) ~> (pcShifts = "infeasible")

\* C3 as stated: whenever Tb <= T the value returned is 1.
C3_TbWithinTotalReturnsOne ==
    (pcShifts = "done" /\ Tb <= ClaimT) => shifts_required = 1

\* C3 as amended: whenever Tb <= T - n_segments * shift the loop breaks in
\* its first pass and the value returned is 1.
C3_TbWithinShiftedTotalReturnsOne ==
    (pcShifts \in {"loop", "test", "done"}
     /\ Tb <= ClaimT - Len(segments) * shift)
    => /\ shifts_required = 1
       /\ ~ENABLED ShiftsIterate

C3_Witness ==
    /\ pcShifts = "done"
    /\ shift > 0
    /\ Len(segments) >= 1
    /\ Tb > 0
    /\ Tb <= ClaimT - Len(segments) * shift
    /\ shifts_required = 1

\* C4: a call with shift = 0 never returns a shift count.
C4_ZeroShiftFails == shift = 0 => pcShifts # "done"

\* the condition of C27 for a shift count k, as the claim writes it:
\* (livetime - n_segments * shift * k) * k >= Tb
ReachesTarget(k) == (ClaimT - Len(segments) * shift * k) * k >= Tb

\* some shift count N >= 1 satisfies the condition
SomeCountReaches == \E k \in 1..ShiftsHorizon : ReachesTarget(k)

\* the least shift count that satisfies the condition
LeastCount ==
    CHOOSE k \in 1..ShiftsHorizon :
        ReachesTarget(k) /\ \A j \in 1..(k - 1) : ~ReachesTarget(j)

\* C27, the part a finite run refutes: the counter is at least 1 throughout,
\* so every value returned is; when some N >= 1 satisfies the condition the
\* counter never passes the least such N, and the value returned is that N.
C27_CounterStopsAtLeast ==
    /\ pcShifts # "idle" => shifts_required >= 1
    /\ (pcShifts # "idle" /\ SomeCountReaches)
       => /\ shifts_required <= LeastCount
          /\ pcShifts = "done" => shifts_required = LeastCount

\* C27: whenever some integer N >= 1 satisfies
\* (livetime - n_segments * shift * N) * N >= Tb, the loop terminates and
\* returns the least such N; every value returned is at least 1.
C27_TerminatesWithLeastCount ==
    /\ []C27_CounterStopsAtLeast
    /\ (pcShifts = "loop" /\ SomeCountReaches) ~> (pcShifts = "done")

C27_Witness ==
    /\ pcShifts = "done"
    /\ shift > 0
    /\ Len(segments) >= 1
    /\ Tb > 0
    /\ shifts_required = 2
    /\ ~ReachesTarget(1)
    /\ ReachesTarget(3)

----------------------------------------------------------------------------
(* Claims about calc_segment_injection_times. Half-seconds appear in the   *)
(* claims (waveform_duration / 2), so they compare doubled quantities.     *)

\* C5: the window [t - waveform_duration/2, t + waveform_duration/2] of
\* every time t returned lies inside [start, stop].
C5_WindowsInsideSegment ==
    pcInj = "done"
    => \A i \in 1..Len(injection_times) :
           /\ 2 * injArgs.start <= 2 * injection_times[i] - injArgs.waveform_duration
           /\ 2 * injection_times[i] + injArgs.waveform_duration <= 2 * injArgs.stop

\* twice the effective buffer of C6: buffer + waveform_duration / 2
TwiceEffectiveBuffer == 2 * injArgs.buffer + injArgs.waveform_duration

\* C6: the grid returned is the arithmetic sequence of step
\* waveform_duration + spacing that starts at start + effective_buffer and
\* stays below stop - effective_buffer, effective_buffer = buffer +
\* waveform_duration / 2.
C6_GridUsesEffectiveBuffer ==
    pcInj = "done"
    => LET first2 == 2 * injArgs.start + TwiceEffectiveBuffer
           end2 == 2 * injArgs.stop - TwiceEffectiveBuffer
           step2 == 2 * (injArgs.waveform_duration + injArgs.spacing)
       IN  /\ \A i \in 1..Len(injection_times) :
                  2 * injection_times[i] = first2 + (i - 1) * step2
           /\ Len(injection_times) = 0
              \/ first2 + (Len(injection_times) - 1) * step2 < end2
           /\ first2 + Len(injection_times) * step2 >= end2

\* C7: consecutive times returned differ by exactly waveform_duration +
\* spacing, so they increase strictly and the windows of width
\* waveform_duration around them do not overlap.
C7_ConsecutiveTimesOnePeriodApart ==
    pcInj = "done"
    => \A i \in 1..(Len(injection_times) - 1) :
           /\ injection_times[i + 1] - injection_times[i]
                  = injArgs.waveform_duration + injArgs.spacing
           /\ injection_times[i] < injection_times[i + 1]
           /\ 2 * injection_times[i] + injArgs.waveform_duration
                  <= 2 * injection_times[i + 1] - injArgs.waveform_duration

C7_Witness ==
    /\ pcInj = "done"
    /\ Len(injection_times) >= 3
    /\ injArgs.waveform_duration >= 2

----------------------------------------------------------------------------
(* Claims about VolumeTimeIntegral.calculate_vt                            *)

One == Fin(1, 1)

\* the number of recovered samples
NRecovered == Len(vtObj.recovered_parameters)

\* C8: called with no target, every recovered sample's weight is 1 and mu
\* is n_recovered / n_injections, whatever densities the source prior gives.
C8_IdentityWeightsAreOne ==
    (pcVT \in {"weighted", "done"} /\ vtTarget = "None")
    => /\ \A i \in 1..Len(vtWeights) : vtWeights[i] = One
       /\ (pcVT = "done" /\ vtObj.n_injections > 0)
          => vtResult.mu = Fin(NRecovered, vtObj.n_injections)

\* V0 of C9: livetime in years times the astrophysical volume
ClaimV0 == Fin(vtObj.livetime * vtObj.volume, SecondsPerYear)

\* C9: for n = n_injections > 0 and finite weights w the call returns
\* mu = sum(w)/n, vt = mu*V0, variance = (n*sum(w^2) - sum(w)^2) * V0^2 / n^3,
\* std = sqrt(variance) and n_eff = vt^2/variance; with all weights 1 and m
\* recovered of n, 0 < m < n, n_eff = m*n/(n - m).
C9_EstimateFormulas ==
    (/\ pcVT = "done"
     /\ vtObj.n_injections > 0
     /\ \A i \in 1..Len(vtWeights) : IsFin(vtWeights[i]))
    => LET n == vtObj.n_injections
           W == FSum(vtWeights)
           Q == FSum(Squares(vtWeights))
           r == vtResult
       IN  /\ FMul(r.mu, Fin(n, 1)) = W
           /\ FMul(r.vt, Fin(n, 1)) = FMul(W, ClaimV0)
           /\ FMul(r.variance, Fin(n * n * n, 1))
                  = FMul(FSub(FMul(Fin(n, 1), Q), FMul(W, W)),
                         FMul(ClaimV0, ClaimV0))
           /\ r.std = FSqrt(r.variance)
           /\ r.variance.n # 0 => FMul(r.n_eff, r.variance) = FMul(r.vt, r.vt)
           /\ (/\ \A i \in 1..Len(vtWeights) : vtWeights[i] = One
               /\ 0 < NRecovered
               /\ NRecovered < n)
              => r.n_eff = Fin(NRecovered * n, n - NRecovered)

C9_Witness ==
    /\ pcVT = "done"
    /\ vtObj.n_injections = 3
    /\ NRecovered = 2
    /\ \A i \in 1..Len(vtWeights) : vtWeights[i] = One
    /\ vtResult.n_eff = Fin(6, 1)

\* C10: a call with n_injections = 0 raises: it never returns a tuple.
C10_ZeroInjectionsRaises == vtObj.n_injections = 0 => pcVT # "done"

\* C11: a negative variance is clamped or reported: the call never returns
\* with a NaN std taken from the square root of a negative variance.
C11_NegativeVarianceNotNaN ==
    (pcVT = "done" /\ IsFin(vtResult.variance) /\ vtResult.variance.n < 0)
    => ~IsNaN(vtResult.std)

\* the case of C28: the call has returned, n_injections > 0, at most
\* n_injections samples are recovered and every weight is finite and >= 0
NonNegativeWeights ==
    /\ pcVT = "done"
    /\ vtObj.n_injections > 0
    /\ NRecovered <= vtObj.n_injections
    /\ \A i \in 1..Len(vtWeights) : IsFin(vtWeights[i]) /\ vtWeights[i].n >= 0

AllWeightsEqual == \A i, j \in 1..Len(vtWeights) : vtWeights[i] = vtWeights[j]

AllWeightsZero == \A i \in 1..Len(vtWeights) : vtWeights[i] = Fin(0, 1)

\* the variance is the term sum(w^2)/n^2 - sum(w)^2/n^3 times v0^2 > 0, so
\* it has the sign of the term and is zero exactly when the term is
ZeroVariance == vtResult.variance = Fin(0, 1)

\* C28 as stated: for non-negative weights with m <= n and n > 0 the
\* variance is >= 0, it is 0 only when m = 0 or when m = n with all weights
\* equal, and with a zero variance n_eff is a division by zero.
C28_ZeroVarianceOnlyWhenNoneOrAllEqual ==
    NonNegativeWeights
    => /\ IsFin(vtResult.variance) /\ vtResult.variance.n >= 0
       /\ ZeroVariance
          => \/ NRecovered = 0
             \/ NRecovered = vtObj.n_injections /\ AllWeightsEqual
       /\ ZeroVariance => ~IsFin(vtResult.n_eff)

\* C28 as amended: for non-negative weights with m <= n and n > 0 the
\* variance is >= 0, it is 0 only when every weight is 0 (m = 0 included)
\* or when m = n with all weights equal, and with a zero variance n_eff is
\* a division by zero (inf or nan, not a finite value).
C28_VarianceNonNegative ==
    NonNegativeWeights
    => /\ IsFin(vtResult.variance) /\ vtResult.variance.n >= 0
       /\ ZeroVariance
          => \/ AllWeightsZero
             \/ NRecovered = vtObj.n_injections /\ AllWeightsEqual
       /\ ZeroVariance => ~IsFin(vtResult.n_eff)

C28_Witness ==
    /\ NonNegativeWeights
    /\ NRecovered = 2
    /\ vtObj.n_injections = 2
    /\ vtWeights[1] = Fin(2, 1)
    /\ vtWeights[2] = Fin(2, 1)
    /\ ZeroVariance
    /\ IsInf(vtResult.n_eff)

----------------------------------------------------------------------------
(* Claims about merge_output                                               *)

RECURSIVE SumOver(_, _)
\* the sum of f[u] over the set S
SumOver(f, S) ==
    IF S = {} THEN 0
    ELSE LET u == CHOOSE x \in S : TRUE
         IN  f[u] + SumOver(f, S \ {u})

\* the positions of dataset seq that hold row <<key, u, i>>
PositionsOf(seq, key, u, i) == {p \in 1..Len(seq) : seq[p] = <<key, u, i>>}

\* C12: after the merge every dataset of the merged archive is as long as
\* the per-unit datasets together, and holds every row of every unit once,
\* the rows of a unit next to each other in their order.
C12_MergedDatasetsConcatenate ==
    (pcMerge = "done" /\ mergeUnits # <<>>)
    => \A key \in Keys :
           /\ key \in DOMAIN mergeOut.data
           /\ Len(mergeOut.data[key])
                  = SumOver([u \in DOMAIN mergeUnits |-> mergeUnits[u].rows],
                            DOMAIN mergeUnits)
           /\ \A u \in DOMAIN mergeUnits : \A i \in 1..mergeUnits[u].rows :
                  /\ Cardinality(PositionsOf(mergeOut.data[key], key, u, i)) = 1
                  /\ i > 1 =>
                         \E p \in PositionsOf(mergeOut.data[key], key, u, i) :
                             mergeOut.data[key][p - 1] = <<key, u, i - 1>>

C12_Witness ==
    /\ pcMerge = "done"
    /\ Len(mergeUnits) = 2
    /\ \A u \in DOMAIN mergeUnits : mergeUnits[u].rows = 2
    /\ mergeOrder = <<2, 1>>

\* C13: after the merge the n_rejected attribute of the merged archive is
\* the sum of the n_rejected attributes of the per-unit archives.
C13_MergedRejectedIsSum ==
    pcMerge = "done"
    => mergeOut.n_rejected
           = SumOver([u \in DOMAIN mergeUnits |-> mergeUnits[u].n_rejected],
                     DOMAIN mergeUnits)

C13_Witness ==
    /\ pcMerge = "done"
    /\ Len(mergeUnits) = 2
    /\ \A u \in DOMAIN mergeUnits : mergeUnits[u].n_rejected = 1
    /\ mergeOut.n_rejected = 2

\* the per-unit archives the call has deleted
MergeDeleted == DOMAIN mergeUnits \ mergeOnDisk

\* C29: merge_output never loses data on failure: when a call has ended,
\* by returning or by raising part-way, the merged archive is written and
\* holds the rows and the n_rejected count of every per-unit archive that
\* was deleted.
C29_DeletedArchivesAreMerged ==
    (pcMerge \in {"done", "raised"} /\ MergeDeleted # {})
    => /\ pcMerge = "done"
       /\ \A u \in MergeDeleted : \A key \in Keys :
              \A i \in 1..mergeUnits[u].rows :
                  PositionsOf(mergeOut.data[key], key, u, i) # {}
       /\ mergeOut.n_rejected
              = SumOver([u \in DOMAIN mergeUnits |-> mergeUnits[u].n_rejected],
                        MergeDeleted)

----------------------------------------------------------------------------
(* Claims about main of scripts/timeslides.py                              *)

\* C14: for every segment, every shift and every detector, the window that
\* is read, from segment_start + shift_value over dur seconds with
\* dur = (segment_stop - segment_start) - max(shifts) * n_slides, lies inside
\* [segment_start, segment_stop] and has positive length, and dur is the
\* same for every shift of the segment.
C14_WindowInsideSegmentAndPositive ==
    \A w \in windows :
        /\ slArgs.segments[seg_index][1] <= w.lo
        /\ w.hi <= slArgs.segments[seg_index][2]
        /\ w.lo < w.hi
        /\ w.hi - w.lo = dur

\* C17: at the moment the processing of a segment begins, every write that
\* was submitted for the previous segment has completed, also when one of
\* those writes fails.
C17_PreviousWritesCompleteAtSegmentBegin ==
    pcSlides = "download" => stalePending = 0

\* C18: when a write of the segment has failed, the join at the end of the
\* segment surfaces the failure: main does not go on as if nothing happened.
C18_FailedWriteSurfacesAtJoin ==
    [][(pcSlides = "wait" /\ futuresFailed > 0 /\ pcSlides' # "wait")
          => pcSlides' = "aborted"]_vars

\* C19: when the strain of a segment cannot be obtained, that segment is
\* skipped and the remaining segments are still processed: main never ends
\* with a segment it has not begun.
C19_FailedDownloadDoesNotAbort ==
    pcSlides \in {"finished", "aborted"}
        => visited = 1..Len(slArgs.segments)

----------------------------------------------------------------------------
(* Claims about Injector                                                   *)

\* the position in the stream of sample i of the array of the last call
StreamPosition(i) ==
    SampleOffset(injAt, Fin(injStart0, 1), injector.sample_rate) + i - 1

\* C15: injection is additive and non-destructive: in the injected output a
\* sample inside the window of a response is the background sample plus the
\* signal sample, a sample outside all windows is the background sample, and
\* the array given as input is unmodified and is the first element returned.
C15_InjectionAdditiveInputUnmodified ==
    pcInjector = "called" =>
        /\ xArr = xAtCall
        /\ injResult[1] = xAtCall
        /\ Len(injResult[2]) = Len(xAtCall)
        /\ \A i \in 1..Len(xAtCall) :
               LET inside == Covering(injector.injection_set, StreamPosition(i))
               IN  IF inside = {}
                   THEN injResult[2][i] = xAtCall[i]
                   ELSE injResult[2][i] =
                            xAtCall[i] + SumSamples(inside, StreamPosition(i))

\* a second call whose array has a sample inside a window and one outside
C15_Witness ==
    /\ pcInjector = "called"
    /\ injCalls = 2
    /\ \E i \in 1..Len(xAtCall) :
           Covering(injector.injection_set, StreamPosition(i)) # {}
    /\ \E i \in 1..Len(xAtCall) :
           Covering(injector.injection_set, StreamPosition(i)) = {}

RECURSIVE SumLengthsOf(_)
\* n_1 + ... + n_k of a sequence of lengths
SumLengthsOf(lengths) ==
    IF lengths = <<>> THEN 0 ELSE Head(lengths) + SumLengthsOf(Tail(lengths))

\* start_0 + samples / sample_rate, as one fraction
StartAfter(samples) ==
    Fin(injStart0 * injector.sample_rate + samples, injector.sample_rate)

\* C30: with arrays of last-axis lengths n_1..n_k, the i-th call injects
\* relative to start_0 + (n_1 + ... + n_(i-1)) / sample_rate and after k calls
\* start is start_0 + (n_1 + ... + n_k) / sample_rate, so the chunk of a call
\* begins where the chunk of the call before it ended.
C30_ChunksAreContiguous ==
    /\ pcInjector = "constructed" => injector.start = StartAfter(0)
    /\ pcInjector = "called"
       => /\ Len(injLengths) = injCalls
          /\ Len(xAtCall) = injLengths[injCalls]
          /\ injAt = StartAfter(SumLengthsOf(SubSeq(injLengths, 1, injCalls - 1)))
          /\ injector.start = StartAfter(SumLengthsOf(injLengths))
          /\ injector.start
                 = FAdd(injAt, Fin(Len(xAtCall), injector.sample_rate))

C30_Witness ==
    /\ pcInjector = "called"
    /\ injLengths = <<1, 2>>
    /\ injector.sample_rate = 2
    /\ injStart0 = 1
    /\ injAt = Fin(3, 2)
    /\ injector.start = Fin(5, 2)

----------------------------------------------------------------------------
(* Claims about params.h5                                                  *)

RECURSIVE ConcatBatches(_, _, _)
\* the batches b..Len(sizes) of a key one after the other
ConcatBatches(key, sizes, b) ==
    IF b > Len(sizes) THEN <<>>
    ELSE ParamBatch(key, b, sizes[b]) \o ConcatBatches(key, sizes, b + 1)

\* C16: after every write into params.h5 the dataset of every key is the
\* concatenation, in write order, of all batches written so far, whatever
\* their sizes: no row written before is truncated or overwritten.
C16_ParamsAreConcatenationOfBatches ==
    paramsBatches # <<>> =>
        \A key \in ParamKeys :
            /\ key \in DOMAIN paramsFile
            /\ paramsFile[key] = ConcatBatches(key, paramsBatches, 1)

\* three batches of different sizes are in the file
C16_Witness ==
    /\ pcParams = "closed"
    /\ Len(paramsBatches) >= 3
    /\ paramsBatches[1] # paramsBatches[2]
    /\ paramsBatches[2] >= 1
    /\ paramsBatches[3] >= 2

----------------------------------------------------------------------------
(* Claims about read_channel                                               *)

\* the attempt reads with no corruption error and gives, resampled, as many
\* samples as sample_rate
GoodRead(read) ==
    /\ read.kind = "series"
    /\ Resample(read, rcSampleRate).len = rcSampleRate

\* the attempt fails in a way the function retries: a recognised corruption
\* error or a wrong length
FailedRead(read) ==
    \/ read.kind = "ValueError" /\ read.msg = "2-dimensional data"
    \/ read.kind = "RuntimeError" /\ read.msg = "Failed to read the core"
    \/ read.kind = "series" /\ Resample(read, rcSampleRate).len # rcSampleRate

\* C20: read_channel makes at most 3 attempts; what it returns is the result
\* of the first attempt that reads without a recognised corruption error and
\* with a resampled length of sample_rate, and never data of another length;
\* when all 3 attempts fail it raises the ValueError that names channel and
\* file.
C20_BoundedRetryReturnsFirstGoodRead ==
    /\ Len(rcReads) <= 3
    /\ pcRead = "returned" =>
           /\ GoodRead(rcReads[Len(rcReads)])
           /\ \A i \in 1..(Len(rcReads) - 1) : ~GoodRead(rcReads[i])
           /\ rcResult = Resample(rcReads[Len(rcReads)], rcSampleRate)
           /\ rcResult.len = rcSampleRate
    /\ (pcRead \in {"returned", "raised"}
        /\ Len(rcReads) = 3 /\ \A i \in 1..3 : FailedRead(rcReads[i]))
           => (/\ pcRead = "raised"
               /\ rcRaised = "ValueError: Failed to read channel {channel} in file {fname}")
    /\ (pcRead = "loop" /\ \A i \in 1..Len(rcReads) : FailedRead(rcReads[i]))
           => rcResult = <<>> /\ rcRaised = ""

\* the third attempt is the first good one, and it had to be resampled
C20_Witness ==
    /\ pcRead = "returned"
    /\ Len(rcReads) = 3
    /\ rcReads[3].rate # rcSampleRate
    /\ rcReads[1].kind # "series"
    /\ rcReads[2].kind = "series"

----------------------------------------------------------------------------
(* Claims about the astrophysical volume                                   *)

\* C21: when the source prior has no dec entry, the construction of a
\* VolumeTimeIntegral succeeds and the volume is computed over the full sky,
\* a solid angle of 4 pi.
C21_NoDecPriorIsFullSky ==
    (pcVolume \in {"done", "raised"} /\ ~volSource.has_dec)
        => (pcVolume = "done" /\ volOmega = 4)

----------------------------------------------------------------------------
(* Claims about generate_background                                        *)

\* second s, the interval [s, s + 1), is active in every detector
Coincident(s) ==
    \A d \in 1..Len(BgIfos) :
        \E i \in 1..Len(bgActive[d]) :
            bgActive[d][i][1] <= s /\ s + 1 <= bgActive[d][i][2]

\* the intervals of the intersection of the active segments of all
\* detectors: the maximal runs of coincident seconds
CoincidentIntervals ==
    {g \in BgSegment :
        /\ \A s \in g[1]..(g[2] - 1) : Coincident(s)
        /\ g[1] = 0 \/ ~Coincident(g[1] - 1)
        /\ g[2] = MaxBgGPS \/ ~Coincident(g[2])}

\* C22: generate_background selects the first interval, in order, of the
\* intersection of the active segments of all detectors that is at least
\* minimum_length long; when the intersection has no such interval it raises
\* ValueError and writes no background file.
C22_FirstLongEnoughCoincidentSegment ==
    LET long == {g \in CoincidentIntervals : g[2] - g[1] >= minimum_length}
    IN  /\ pcBackground \in {"write", "done"} =>
               /\ bgSegment \in long
               /\ \A g \in long : bgSegment[1] <= g[1]
               /\ \A f \in bgFiles : f[2] = bgSegment
        /\ pcBackground = "raised" => (long = {} /\ bgFiles = {})
        /\ pcBackground = "select" => bgFiles = {}
        /\ (pcBackground \in {"done", "raised"} /\ long = {}) =>
               pcBackground = "raised"

\* the intersection has an interval that is too short before the one chosen,
\* and the files are written
C22_Witness ==
    /\ pcBackground = "done"
    /\ Cardinality(bgFiles) = Len(BgIfos)
    /\ \E g \in CoincidentIntervals :
           g[2] - g[1] < minimum_length /\ g[2] < bgSegment[1]
    /\ bgActive[1] # bgActive[2]

----------------------------------------------------------------------------
(* Claims about batch_chunks                                               *)

\* the samples the chunks of the iterator supply
Supplied == SumLengths(bcArgs.chunks, Len(bcArgs.chunks))

\* the samples of the stream that no batch has taken yet
StillAvailable == Supplied - bcArgs.num_steps * StepSize(bcArgs)

\* C23: when the chunks supply at least num_steps * step_size samples, of
\* whatever lengths, batch i (from 0) is the samples
\* [i * step_size, (i + 1) * step_size) of the stream: full, nothing
\* dropped, duplicated or reordered.
C23_BatchesAreConsecutiveFullSlices ==
    (pcBatch # "idle" /\ Supplied >= bcArgs.num_steps * StepSize(bcArgs)) =>
        \A i \in 1..Len(bcYielded) :
            bcYielded[i] =
                [j \in 1..StepSize(bcArgs) |-> (i - 1) * StepSize(bcArgs) + j - 1]

\* C24: after num_steps batches batch_chunks returns when the iterator is
\* exhausted or less than step_size samples are still available, and raises
\* ValueError when a full step is still available; an iterator that is
\* empty at the start or runs out before num_steps batches raises
\* ValueError.
C24_EndOfStreamOutcome ==
    /\ (pcBatch = "raised" /\ bcI = bcArgs.num_steps /\ bcFetched > 0
        /\ Len(bcYielded) = bcArgs.num_steps)
           => (bcRaised = "Ran out of data" \/ StillAvailable >= StepSize(bcArgs))
    /\ pcBatch = "returned" => Len(bcYielded) = bcArgs.num_steps
    /\ (pcBatch \in {"returned", "raised"} /\ Len(bcArgs.chunks) = 0)
           => pcBatch = "raised"

----------------------------------------------------------------------------
(* Claims about aframeWaveformInjection.forward                            *)

----------------------------------------------------------------------------
(* Claims about data_iterator                                              *)

\* C26: the timestamps t0 of the yields that carry data are strictly
\* increasing, whatever the arrivals, timeouts and resets: a reset after a
\* timeout never moves t0 back to a frame at or before one already yielded.
C26_DataTimestampsStrictlyIncrease ==
    \A i \in 1..Len(diYields), j \in 1..Len(diYields) :
        (i < j /\ diYields[i].data /\ diYields[j].data)
            => diYields[i].t0 < diYields[j].t0

====
